---- MODULE Spec2Model ----
(***************************************************************************)
(* RescueLink telemetry simulators (Health hackathon project/Backend):     *)
(*   mqtt_data_generator.py            ("generator")                       *)
(*   mqtt_data_generator_realtime.py   ("realtime")                        *)
(*   ambulance_simulator.py            ("simulator")                       *)
(*                                                                         *)
(* The module holds several specifications over one set of variables:      *)
(*   Spec       the polling loop of main() of generator and realtime       *)
(*   SpecFair   the generator's polling loop driven by a simulated         *)
(*              binary64 clock advanced by 0.1 per iteration               *)
(*   SpecVitals the three vitals producers                                 *)
(*   SpecRoute  RouteSimulator (realtime), LocationGenerator (generator)   *)
(*              and the point loop of ambulance_simulator.main             *)
(*   SpecRouteFair  the realtime and simulator loops of SpecRoute, kept    *)
(*              running by weak fairness                                   *)
(*   SpecScenario   the simulator on a route of two waypoints              *)
(*   SpecEdge   realtime and simulator started with other routes (a leg of *)
(*              length 0, fewer than two waypoints) and with speed 0       *)
(*   SpecLoop   the three loops in a run where a publish can fail, a       *)
(*              producer can raise and the user can press Ctrl-C           *)
(*   SpecShared the vitals and location producers of the generator around  *)
(*              current_location                                           *)
(*   SpecEcg    ECGGenerator of generator and realtime                     *)
(* Each specification leaves the variables of the others unchanged.        *)
(***************************************************************************)
EXTENDS Integers, Sequences, FiniteSets, TLC

VARIABLES
    \* ---- polling loop of main() (generator, realtime) ----
    variant,        \* which script runs: "generator" | "realtime" | "simulator"
    clock0,         \* what the clock read when main() started
    clock,          \* the wall clock time.time() would return, in granules of 0.05 s
    current_time,   \* main: current_time
    last,           \* main: last_vitals, last_ecg, ... as a function of producer
    pc,             \* position in the loop body
    firedTick,      \* producers invoked so far in this iteration, in order
    invoked,        \* the most recent invocation: [p, at, prev, result,
                    \* reported] or << >>
    \* ---- the generator's polling loop under a simulated binary64 clock ----
    simClock,       \* the simulated time.time(), a binary64 value (see F64)
    simLast,        \* last_vitals, ... as binary64 values
    simCount,       \* how often each producer was invoked
    simTicks,       \* loop iterations completed
    \* ---- vitals producers ----
    vitals_gen,     \* VitalsGenerator: heart_rate, spo2, systolic, diastolic,
                    \* temperature, in hundredths of their unit
    vitalsSample,   \* the vitals payload published last, or << >>
    vitalsCalls,    \* how many vitals payloads were produced
    \* ---- route producers ----
    rtClock,        \* realtime: time.time() - route_sim.start_time, in route ticks
    rtLast,         \* realtime: last_location, last_eta, relative to start_time
    locSample,      \* the location payload published last, or << >>
    etaSample,      \* the ETA payload published last, or << >>
    location_gen,   \* generator: LocationGenerator current_lat, current_lon
    current_point_index,  \* simulator main: current_point_index
    simStatus,      \* simulator main: "running" | "done", or "idle"
    waypoints,      \* ROUTE_WAYPOINTS of the running script, or << >>
    speed,          \* AMBULANCE_SPEED_KPH / SPEED_KMH of the running script
    fault,          \* the exception that left main() uncaught, or "none"
    hazards,        \* what can go wrong in this run: a publish returning a
                    \* failure, a producer raising, the user pressing Ctrl-C
    released,       \* how often loop_stop() and disconnect() were called
    current_location, \* generator: the global dict shared by the producers
    ecg_gen,        \* ECGGenerator: [phase, heart_rate], or << >>
    ecgSample,      \* the phase of each sample of the last ECG payload, or << >>
    ecgCalls,       \* how often ECGGenerator.generate was called
    ecgWave,        \* the samples of the last ECG payload, each with the
                    \* parts it was added up from, or << >>
    sent,           \* the messages handed to client.publish by the last
                    \* step that published: [topic, qos, retain] each
    profiles,       \* how often publish_patient_profile was called
    measured,       \* the last pair of points whose distance was computed,
                    \* with the results of both haversine functions, or << >>
    snapshot        \* the producers that only read the state of others
                    \* (patient vitals, ETA, traffic): how many payloads they
                    \* published, who published the last one, and that payload

schedVars == <<clock0, clock, current_time, last, pc, firedTick, invoked>>

fairVars == <<simClock, simLast, simCount, simTicks>>

vitalsVars == <<vitals_gen, vitalsSample, vitalsCalls>>

routeVars == <<rtClock, rtLast, locSample, etaSample, location_gen,
               current_point_index, simStatus, waypoints, speed, fault>>

envVars == <<hazards, released>>

ecgVars == <<ecg_gen, ecgSample, ecgCalls, ecgWave>>

wireVars == <<sent, profiles>>

vars == <<variant, clock0, clock, current_time, last, pc, firedTick, invoked,
          simClock, simLast, simCount, simTicks,
          vitals_gen, vitalsSample, vitalsCalls,
          rtClock, rtLast, locSample, etaSample, location_gen,
          current_point_index, simStatus, waypoints, speed, fault,
          hazards, released, current_location,
          ecg_gen, ecgSample, ecgCalls, ecgWave,
          sent, profiles, measured, snapshot>>

-----------------------------------------------------------------------------
(* Bounds of the model. *)

\* the clock is not advanced past this many granules after startup
MaxClock == 130
\* the longest time one loop iteration may take beyond its sleep, in granules
MaxJitter == 1
\* how many times the simulated clock is advanced by 0.1 s (10 s in all)
FairSteps == 100
\* how many vitals payloads one run of SpecVitals produces
MaxGenerate == 5
\* the realtime loop is not run past this many route ticks of 0.5 s
MaxElapsed == 1000
\* a long pause between two loop iterations, in route ticks
RouteStall == 120

-----------------------------------------------------------------------------
(* Each specification starts the parts of the state it does not use in an  *)
(* idle value and never changes them.                                      *)

\* the simulated clock is not in use
FairIdle ==
    /\ simClock = << >>
    /\ simLast = << >>
    /\ simCount = << >>
    /\ simTicks = 0

\* the vitals producers are not in use
VitalsIdle ==
    /\ vitals_gen = << >>
    /\ vitalsSample = << >>
    /\ vitalsCalls = 0

\* the route producers are not in use
RouteIdle ==
    /\ rtClock = 0
    /\ rtLast = << >>
    /\ locSample = << >>
    /\ etaSample = << >>
    /\ location_gen = << >>
    /\ current_point_index = 0
    /\ simStatus = "idle"
    /\ waypoints = << >>
    /\ speed = 0
    /\ fault = "none"

\* START_LAT, START_LON, DEST_LAT, DEST_LON of the generator, in microdegrees
START_LAT == 23259900
START_LON == 77412600
DEST_LAT == 23215600
DEST_LON == 77430400

\* `current_location = {"lat": START_LAT, "lon": START_LON, "heading":
\* "Northeast"}`, a global of the generator only
CurrentLocationInit(v) ==
    IF v = "generator"
    THEN [lat |-> START_LAT, lon |-> START_LON, heading |-> "Northeast"]
    ELSE << >>

\* the ECG producer is not in use
EcgIdle ==
    /\ ecg_gen = << >>
    /\ ecgSample = << >>
    /\ ecgCalls = 0
    /\ ecgWave = << >>

\* nothing goes wrong, nothing has been released, and the shared position
\* is the one the script starts with
EnvIdle ==
    /\ hazards = {}
    /\ released = [loop_stop |-> 0, disconnect |-> 0]
    /\ current_location = CurrentLocationInit(variant)
    /\ EcgIdle

\* client.publish(topic, payload, qos, retain)
Message(topic, qos, retain) == [topic |-> topic, qos |-> qos, retain |-> retain]

\* publish_patient_profile (ProfileMessageOnce: the profile is published
\* like the periodic messages, without retain)
ProfileMessageOnce == Message("patient_profile", 1, FALSE)

ProfileMessage == Message("patient_profile", 1, TRUE)

\* the qos of the periodic publishes: qos=0 for the ECG and qos=1 for the
\* others in generator and realtime; no qos argument, hence the default 0
\* of client.publish, in ambulance_simulator
Qos(v, p) == IF v = "simulator" \/ p = "ecg" THEN 0 ELSE 1

\* a periodic publish: no retain argument anywhere, hence retain=False
PeriodicMessage(v, p) == Message(p, Qos(v, p), FALSE)

\* no producer that only reads has published yet
SnapshotIdle == [calls |-> 0, p |-> "none", data |-> << >>]

\* main() has reached its loop: generator and realtime have published the
\* patient profile, ambulance_simulator has published nothing
WireStarted ==
    /\ sent = IF variant = "simulator" THEN << >> ELSE <<ProfileMessage>>
    /\ profiles = IF variant = "simulator" THEN 0 ELSE 1
    /\ measured = << >>
    /\ snapshot = SnapshotIdle

\* the polling loop of main() is not in use
SchedIdle ==
    /\ clock0 = 0
    /\ clock = 0
    /\ current_time = 0
    /\ last = << >>
    /\ pc = "idle"
    /\ firedTick = << >>
    /\ invoked = << >>

\* `client.loop_stop()` then `client.disconnect()`
\* (ReleaseLoopOnly: the network loop is stopped, the connection is kept)
ReleaseLoopOnly(r) == [r EXCEPT !.loop_stop = @ + 1]

ReleasePublisher(r) == [loop_stop |-> r.loop_stop + 1, disconnect |-> r.disconnect + 1]

-----------------------------------------------------------------------------
(* Units.  One clock granule is 0.05 s, so 20 granules make one second.    *)

GranulesPerSecond == 4 * 5

Seconds(s) == s * GranulesPerSecond

\* 0.1 s and 0.05 s in granules
Tenths(n) == (n * GranulesPerSecond) \div 10
Hundredths(n) == (n * GranulesPerSecond) \div 100

-----------------------------------------------------------------------------
(* Producers and cadences.                                                 *)

\* registration order = textual order of the if-statements in the loop body
RegisteredEtaFirst(v) ==
    IF v = "generator"
    THEN <<"vitals", "ecg", "eta", "location", "traffic", "patient_vitals">>
    ELSE <<"vitals", "ecg", "eta", "location", "traffic">>
Registered(v) ==
    IF v = "generator"
    THEN <<"vitals", "ecg", "location", "eta", "traffic", "patient_vitals">>
    ELSE <<"vitals", "ecg", "location", "eta", "traffic">>

AllProducers == {"vitals", "ecg", "location", "eta", "traffic", "patient_vitals"}

\* generator: VITALS_INTERVAL, ECG_INTERVAL, LOCATION_INTERVAL and the literals
\* 5, 10, 3 of the loop; realtime: the five *_INTERVAL constants
Cadence(v, p) ==
    IF v = "generator"
    THEN CASE p = "vitals"         -> Seconds(2)
           [] p = "ecg"            -> Tenths(1)
           [] p = "location"       -> Seconds(5)
           [] p = "eta"            -> Seconds(5)
           [] p = "traffic"        -> Seconds(10)
           [] p = "patient_vitals" -> Seconds(3)
    ELSE CASE p = "vitals"         -> Seconds(2)
           [] p = "ecg"            -> Tenths(1)
           [] p = "location"       -> Seconds(1)
           [] p = "eta"            -> Seconds(2)
           [] p = "traffic"        -> Seconds(10)
           [] p = "patient_vitals" -> Seconds(3)

\* time.sleep(0.05) in generator, time.sleep(0.1) in realtime
SleepTime(v) == IF v = "generator" THEN Hundredths(5) ELSE Tenths(1)

\* the largest cadence: a wall clock reads far more than this at startup
LargestCadence == Seconds(10)

\* clock readings at startup: a simulated clock at 0 and a wall clock (which
\* reads at least the largest cadence)
StartClocks == {0, LargestCadence}

-----------------------------------------------------------------------------
(* Python floats.  time.time(), the last_* trackers and the float cadences *)
(* are IEEE-754 binary64 values.  A non-negative binary64 value below 16   *)
(* that is a multiple of 2^-56 is held exactly as <<hi, lo>>, standing for *)
(* (hi * 2^30 + lo) * 2^-56.  Addition and subtraction compute the exact   *)
(* result and round it to 53 significant bits, ties to even, as the        *)
(* hardware does.                                                          *)

F64Base == 2 ^ 30

\* an integer number of seconds (below 16) as a binary64 value
F64OfInt(n) == <<n * (2 ^ 26), 0>>

\* the binary64 value nearest to 0.1: 7205759403792794 * 2^-56
F64Tenth == <<6710886, 429496730>>

F64Carry(hi, lo) == <<hi + (lo \div F64Base), lo % F64Base>>

\* spacing of binary64 values around x, in units of 2^-56: values below 2^-3
\* (hi < 2^23) are held exactly, each doubling of x doubles the spacing
RECURSIVE F64UlpOf(_)
F64UlpOf(hi) == IF hi < 2 ^ 23 THEN 1 ELSE 2 * F64UlpOf(hi \div 2)

\* round to nearest, ties to even
F64Round(x) ==
    LET u == F64UlpOf(x[1])
        r == x[2] % u
        down == x[2] - r
        even == (x[2] \div u) % 2 = 0
    IN IF 2 * r < u \/ (2 * r = u /\ even)
       THEN <<x[1], down>>
       ELSE F64Carry(x[1], down + u)

\* a + b
F64Add(a, b) == F64Round(F64Carry(a[1] + b[1], a[2] + b[2]))

\* a - b, for a >= b
F64Sub(a, b) ==
    F64Round(IF a[2] >= b[2]
             THEN <<a[1] - b[1], a[2] - b[2]>>
             ELSE <<a[1] - b[1] - 1, (a[2] - b[2]) + F64Base>>)

\* a >= b
F64Ge(a, b) == a[1] > b[1] \/ (a[1] = b[1] /\ a[2] >= b[2])

-----------------------------------------------------------------------------
(* The loop body.                                                          *)

\* `if current_time - last_x >= X_INTERVAL:`
DueLate(now, lastFired, cadence) == now - lastFired > cadence
Due(now, lastFired, cadence) == now - lastFired >= cadence

\* `last_x = current_time`
AdvanceCatchUp(now, lastFired, cadence) == lastFired + cadence
Advance(now, lastFired, cadence) == now

\* the statement after producer p's if-statement
After(v, p) ==
    LET reg == Registered(v)
        i == CHOOSE k \in 1..Len(reg) : reg[k] = p
    IN IF i = Len(reg) THEN "sleep" ELSE reg[i + 1]

SchedInit ==
    /\ variant \in {"generator", "realtime"}
    /\ clock0 \in StartClocks
    /\ clock = clock0
    /\ current_time = 0
    /\ last = [p \in AllProducers |-> 0]
    /\ pc = "clock"
    /\ firedTick = << >>
    /\ invoked = << >>
    /\ FairIdle
    /\ VitalsIdle
    /\ EnvIdle
    /\ WireStarted
    /\ RouteIdle

\* `current_time = time.time()`
ReadClock ==
    /\ pc = "clock"
    /\ current_time' = clock
    /\ pc' = Registered(variant)[1]
    /\ firedTick' = << >>
    /\ UNCHANGED <<variant, clock0, clock, last, invoked>>
    /\ UNCHANGED <<fairVars, vitalsVars, routeVars, envVars, current_location, ecgVars, measured, snapshot, wireVars>>

\* how a call of a producer can end: its client.publish returns
\* MQTT_ERR_SUCCESS or another result code, or an exception leaves the call
Results(h) ==
    {"success"} \cup (IF "rc_fail" \in h THEN {"failure"} ELSE {})
                \cup (IF "raise" \in h THEN {"raised"} ELSE {})

\* the producers with an else branch printing "Failed to publish ..."
ReportsFailure(v, p) == v = "generator" /\ p \in {"vitals", "location"}

\* one if-statement of the loop: invoke the producer when due, then record
\* the firing time
CheckProducer(p) ==
    /\ pc = p
    /\ IF Due(current_time, last[p], Cadence(variant, p))
       THEN \E result \in Results(hazards) :
            /\ firedTick' = Append(firedTick, p)
            /\ invoked' = [p |-> p, at |-> current_time, prev |-> last[p],
                           result |-> result,
                           reported |-> result = "failure" /\ ReportsFailure(variant, p)]
            /\ IF result = "raised"
               THEN \* the exception leaves the producer and main()
                    /\ pc' = "terminated"
                    /\ UNCHANGED <<last, sent>>
               ELSE /\ pc' = After(variant, p)
                    /\ last' = [last EXCEPT
                                  ![p] = Advance(current_time, last[p], Cadence(variant, p))]
                    /\ sent' = <<PeriodicMessage(variant, p)>>
       ELSE /\ pc' = After(variant, p)
            /\ UNCHANGED <<firedTick, invoked, last, sent>>
    /\ UNCHANGED <<variant, clock0, clock, current_time, profiles>>
    /\ UNCHANGED <<fairVars, vitalsVars, routeVars, envVars, current_location, ecgVars, measured, snapshot>>

CheckVitals == CheckProducer("vitals")
CheckEcg == CheckProducer("ecg")
CheckLocation == CheckProducer("location")
CheckEta == CheckProducer("eta")
CheckTraffic == CheckProducer("traffic")
CheckPatientVitals == CheckProducer("patient_vitals")

\* `time.sleep(...)`: the clock moves on by the sleep plus whatever the
\* iteration took
Sleep ==
    /\ pc = "sleep"
    /\ \E d \in 0..MaxJitter :
          /\ clock + SleepTime(variant) + d <= clock0 + MaxClock
          /\ clock' = clock + SleepTime(variant) + d
    /\ pc' = "clock"
    /\ UNCHANGED <<variant, clock0, current_time, last, firedTick, invoked>>
    /\ UNCHANGED <<fairVars, vitalsVars, routeVars, envVars, current_location, ecgVars, measured, snapshot, wireVars>>

SchedNext ==
    \/ ReadClock
    \/ CheckVitals
    \/ CheckEcg
    \/ CheckLocation
    \/ CheckEta
    \/ CheckTraffic
    \/ CheckPatientVitals
    \/ Sleep

Spec == SchedInit /\ [][SchedNext]_vars

-----------------------------------------------------------------------------
(* The generator's loop body with time.time() and time.sleep() replaced by *)
(* a simulated clock that starts at 0.0 and is advanced by 0.1 per         *)
(* iteration.  The comparisons are the float comparisons of the source.    *)

\* VITALS_INTERVAL = 2, ECG_INTERVAL = 0.1, LOCATION_INTERVAL = 5 and the
\* literals 5, 10, 3 of the loop
F64Cadence(p) ==
    CASE p = "vitals"         -> F64OfInt(2)
      [] p = "ecg"            -> F64Tenth
      [] p = "location"       -> F64OfInt(5)
      [] p = "eta"            -> F64OfInt(5)
      [] p = "traffic"        -> F64OfInt(10)
      [] p = "patient_vitals" -> F64OfInt(3)

\* `if current_time - last_x >= X_INTERVAL:` on floats
F64Due(now, lastFired, cadence) == F64Ge(F64Sub(now, lastFired), cadence)

FairInit ==
    /\ variant = "generator"
    /\ SchedIdle
    /\ VitalsIdle
    /\ EnvIdle
    /\ WireStarted
    /\ RouteIdle
    /\ simClock = F64OfInt(0)
    /\ simLast = [p \in AllProducers |-> F64OfInt(0)]
    /\ simCount = [p \in AllProducers |-> 0]
    /\ simTicks = 0

\* one iteration of `while True:`; every if-statement compares the same
\* current_time with its own tracker, then the clock moves on by 0.1
FairTick ==
    /\ simTicks <= FairSteps
    /\ LET fires == {p \in AllProducers : F64Due(simClock, simLast[p], F64Cadence(p))}
       IN /\ simLast' = [p \in AllProducers |->
                            IF p \in fires THEN simClock ELSE simLast[p]]
          /\ simCount' = [p \in AllProducers |->
                            IF p \in fires THEN simCount[p] + 1 ELSE simCount[p]]
    /\ simClock' = F64Add(simClock, F64Tenth)
    /\ simTicks' = simTicks + 1
    /\ UNCHANGED <<variant, schedVars, vitalsVars, routeVars, envVars, current_location, ecgVars, measured, snapshot, wireVars>>

FairNext == FairTick

SpecFair == FairInit /\ [][FairNext]_vars

\* floor(10 / cadence) for the three cadences of the claim, in tenths of a
\* second: 2 s, 0.1 s, 5 s
ExpectedFirings(p) ==
    CASE p = "vitals"   -> FairSteps \div 20
      [] p = "ecg"      -> FairSteps \div 1
      [] p = "location" -> FairSteps \div 50

\* C2: with cadences 2 s, 0.1 s and 5 s and a simulated clock advanced in
\* 0.1 s steps for 10 s, each producer fires floor(10 / cadence) times, give
\* or take one.
CE_C2 ==
    simTicks = FairSteps + 1 =>
       \A p \in {"vitals", "ecg", "location"} :
          /\ simCount[p] >= ExpectedFirings(p) - 1
          /\ simCount[p] <= ExpectedFirings(p) + 1

-----------------------------------------------------------------------------
(* Claims about the polling loop, checked under Spec.                      *)

\* position of producer p in the sequence s, 0 when absent
IndexIn(s, p) == IF \E k \in 1..Len(s) : s[k] = p
                 THEN CHOOSE k \in 1..Len(s) : s[k] = p
                 ELSE 0

\* C1: a producer is invoked on a tick only if now - last_fired >= its
\* cadence, and right after the invocation its last_fired is that tick's now;
\* so it fires at most once per tick and two consecutive firings of one
\* producer are at least one cadence apart.
Thm_C1 ==
    /\ invoked # << >> =>
          /\ invoked.at - invoked.prev >= Cadence(variant, invoked.p)
          /\ last[invoked.p] = invoked.at
    /\ \A i \in 1..Len(firedTick) :
          /\ last[firedTick[i]] = current_time
          /\ \A j \in 1..Len(firedTick) : firedTick[i] = firedTick[j] => i = j
    /\ \A p \in AllProducers : last[p] <= current_time

\* a producer fired late (more than one cadence after its previous firing)
\* and its last_fired is the tick's now, not the previous firing plus cadence
Witness_C1 ==
    /\ invoked # << >>
    /\ invoked.prev > 0
    /\ invoked.at - invoked.prev > Cadence(variant, invoked.p)
    /\ last[invoked.p] = invoked.at
    /\ pc = "sleep"

\* the order the claim states
ClaimedOrder == <<"vitals", "ecg", "location", "eta", "traffic", "patient_vitals">>

\* C3: producers due on the same tick fire in registration order (vitals,
\* ecg, location, eta, traffic, patient-vitals): the firings of a tick are in
\* that order, and a producer registered earlier than a fired one has either
\* fired before it on this tick or was not due.
Thm_C3 ==
    /\ \A i, j \in 1..Len(firedTick) :
          i < j => IndexIn(ClaimedOrder, firedTick[i]) < IndexIn(ClaimedOrder, firedTick[j])
    /\ \A i \in 1..Len(firedTick) : \A q \in AllProducers :
          /\ IndexIn(Registered(variant), q) > 0
          /\ IndexIn(ClaimedOrder, q) < IndexIn(ClaimedOrder, firedTick[i])
          => \/ \E j \in 1..(i - 1) : firedTick[j] = q
             \/ ~Due(current_time, last[q], Cadence(variant, q))
    /\ pc = "sleep" =>
          \A q \in AllProducers :
             IndexIn(Registered(variant), q) > 0 =>
                ~Due(current_time, last[q], Cadence(variant, q))

\* the end of a generator tick on which ecg, location and eta fired while
\* vitals, registered first, was not due
Witness_C3 ==
    /\ pc = "sleep"
    /\ variant = "generator"
    /\ firedTick = <<"ecg", "location", "eta">>

-----------------------------------------------------------------------------
(* Vitals producers.  Values are integers in hundredths: 7500 is 75 bpm,   *)
(* 3700 is 37.0 degrees.  random.uniform(a, b) and random.randint(a, b)    *)
(* are drawn from a few points of their range, the two ends among them.    *)

Min(a, b) == IF a <= b THEN a ELSE b
Max(a, b) == IF a >= b THEN a ELSE b
Abs(x) == IF x < 0 THEN 0 - x ELSE x

\* random.uniform(lo, hi), random.randint(lo, hi): the two ends
Draws(lo, hi) == {lo, hi}
\* random.uniform(lo, hi) for a field published with one decimal: the two
\* ends and a point between them that is no multiple of a tenth
DrawsFine(lo, hi) == {lo, lo + ((hi - lo) \div 3), hi}

\* round(x): to the nearest integer, halves to the even one; x in hundredths
Round0(x) ==
    LET q == x \div 100
        r == x % 100
    IN IF r < 50 \/ (r = 50 /\ q % 2 = 0) THEN 100 * q ELSE 100 * (q + 1)

\* round(x, 1): to the nearest tenth, halves to the even one
Round1(x) ==
    LET q == x \div 10
        r == x % 10
    IN IF r < 5 \/ (r = 5 /\ q % 2 = 0) THEN 10 * q ELSE 10 * (q + 1)

\* `x = max(lo, min(hi, x))`
ClampNone(lo, hi, x) == x
Clamp(lo, hi, x) == Max(lo, Min(hi, x))

\* VitalsGenerator.__init__ (the same in generator and realtime)
VitalsGeneratorInit ==
    [heart_rate |-> 7500, spo2 |-> 9800, systolic |-> 12000,
     diastolic |-> 8000, temperature |-> 3700]

\* VitalsGenerator.generate: the state after the five steps, d the five draws
VitalsWalk(g, d) ==
    [heart_rate  |-> Clamp(6000, 10000, g.heart_rate + d.heart_rate),
     spo2        |-> Clamp(9500, 10000, g.spo2 + d.spo2),
     systolic    |-> Clamp(11000, 14000, g.systolic + d.systolic),
     diastolic   |-> Clamp(7000, 9000, g.diastolic + d.diastolic),
     temperature |-> Clamp(3650, 3750, g.temperature + d.temperature)]

\* VitalsGenerator.generate: the returned payload (the keys are sys/dia in
\* generator and systolic/diastolic in realtime)
VitalsPayload(g) ==
    [hr   |-> Round0(g.heart_rate),
     spo2 |-> Round1(g.spo2),
     sys  |-> Round0(g.systolic),
     dia  |-> Round0(g.diastolic),
     temp |-> Round1(g.temperature)]

\* the draws of one VitalsGenerator.generate call
WalkDraws ==
    [heart_rate : Draws(-200, 200), spo2 : DrawsFine(-50, 50),
     systolic : Draws(-300, 300), diastolic : Draws(-200, 200),
     temperature : Draws(-10, 10)]

\* ambulance_simulator.generate_vitals: no state, every payload is drawn
\* afresh around fixed base values
generate_vitals(d) ==
    [hr   |-> 7700 + d.hr,
     spo2 |-> Round1(9520 + d.spo2),
     sys  |-> 13800 + d.sys,
     dia  |-> 8800 + d.dia,
     temp |-> Round1(3710 + d.temp)]

\* the draws of one generate_vitals call
SimulatorDraws ==
    [hr : Draws(-300, 500), spo2 : Draws(-100, 80),
     sys : Draws(-500, 500), dia : Draws(-300, 300),
     temp : Draws(-20, 20)]

VitalsInit ==
    /\ variant \in {"generator", "realtime", "simulator"}
    /\ vitals_gen = IF variant = "simulator" THEN << >> ELSE VitalsGeneratorInit
    /\ vitalsSample = << >>
    /\ vitalsCalls = 0
    /\ SchedIdle
    /\ FairIdle
    /\ RouteIdle
    /\ EnvIdle
    /\ WireStarted

\* f"{x:.4f}" of a coordinate held in microdegrees, in units of 0.0001
\* degrees: the nearest one; half-way between two, the float that stands for
\* the coordinate lies on either side, so the result is above when up holds
Fixed4(x, up) ==
    IF x % 100 = 50
    THEN (x \div 100) + (IF up THEN 1 ELSE 0)
    ELSE (x + 50) \div 100

Ties(x) == IF x % 100 = 50 THEN BOOLEAN ELSE {TRUE}

\* the "gps" and "heading" entries VitalsGenerator.generate of the generator
\* reads from current_location
LocationFields(loc, up_lat, up_lon) ==
    [gps     |-> [lat |-> Fixed4(loc.lat, up_lat), lon |-> Fixed4(loc.lon, up_lon)],
     heading |-> loc.heading]

\* publish_vitals of generator and realtime: `data = vitals_gen.generate()`
PublishVitals ==
    /\ variant \in {"generator", "realtime"}
    /\ vitalsCalls < MaxGenerate
    /\ \E d \in WalkDraws :
          /\ vitals_gen' = VitalsWalk(vitals_gen, d)
          /\ IF variant = "generator"
             THEN \E up_lat \in Ties(current_location.lat),
                     up_lon \in Ties(current_location.lon) :
                     vitalsSample' = VitalsPayload(vitals_gen')
                                       @@ LocationFields(current_location, up_lat, up_lon)
             ELSE vitalsSample' = VitalsPayload(vitals_gen')
    /\ vitalsCalls' = vitalsCalls + 1
    /\ sent' = <<PeriodicMessage(variant, "vitals")>>
    /\ UNCHANGED <<variant, schedVars, fairVars, routeVars, envVars, current_location,
                   ecgVars, measured, snapshot, profiles>>

\* ambulance_simulator.main: `vitals = generate_vitals()`
SimulatorVitals ==
    /\ variant = "simulator"
    /\ vitalsCalls < MaxGenerate
    /\ \E d \in SimulatorDraws : vitalsSample' = generate_vitals(d)
    /\ vitalsCalls' = vitalsCalls + 1
    /\ sent' = <<PeriodicMessage(variant, "vitals")>>
    /\ UNCHANGED <<variant, vitals_gen, schedVars, fairVars, routeVars, envVars,
                   current_location, ecgVars, measured, snapshot, profiles>>

VitalsNext ==
    \/ PublishVitals
    \/ SimulatorVitals

SpecVitals == VitalsInit /\ [][VitalsNext]_vars

InRange(x, lo, hi) == lo <= x /\ x <= hi

\* C4: every published vitals sample of every vitals producer has heart rate
\* in 60-100, SpO2 in 94-100, systolic in 110-140, diastolic in 70-90 and
\* temperature in 36.5-37.5.
CE_C4 ==
    vitalsSample # << >> =>
       /\ InRange(vitalsSample.hr, 6000, 10000)
       /\ InRange(vitalsSample.spo2, 9400, 10000)
       /\ InRange(vitalsSample.sys, 11000, 14000)
       /\ InRange(vitalsSample.dia, 7000, 9000)
       /\ InRange(vitalsSample.temp, 3650, 3750)

\* the five fields of a producer that the claim speaks of: the generator's
\* state, and the simulator's payload (it keeps no state)
WalkFields(g, sample) ==
    IF variant = "simulator"
    THEN <<sample.hr, sample.spo2, sample.sys, sample.dia, sample.temp>>
    ELSE <<g.heart_rate, g.spo2, g.systolic, g.diastolic, g.temperature>>

\* the step ranges of the claim: 2, 0.5, 3, 2, 0.1
StepRange == <<200, 50, 300, 200, 10>>

\* C5: between two consecutive generate calls of one vitals producer each
\* field changes by at most its step range (2, 0.5, 3, 2, 0.1), for every
\* vitals producer, generate_vitals of the simulator included.
CE_C5 ==
    [][(vitalsCalls >= 1 /\ vitalsCalls' = vitalsCalls + 1) =>
          \A i \in 1..5 :
             Abs(WalkFields(vitals_gen', vitalsSample')[i]
                 - WalkFields(vitals_gen, vitalsSample)[i]) <= StepRange[i]]_vars

-----------------------------------------------------------------------------
(* Geometry.  Coordinates are integers in microdegrees.  Distances are     *)
(* integers in units of 1/7200 km, the distance covered at 1 km/h in one   *)
(* route tick of 0.5 s, so that speed * elapsed is exact.  The legs of the *)
(* routes are below 0.1 degree, where sin x, asin x and atan2(x, sqrt(1 -  *)
(* x*x)) differ from x by less than 1e-6 of x: below the resolution kept   *)
(* here.  cos of a latitude is a Taylor polynomial in fixed point.         *)

RouteTicksPerSecond == 1 + 1

\* distance units per km: 3600 s/h * ticks per second
DistUnitsPerKm == 3600 * RouteTicksPerSecond

\* n / d rounded toward zero
Quot(n, d) == IF n >= 0 THEN n \div d ELSE 0 - ((0 - n) \div d)

\* floor of the square root, by Newton's iteration from above
RECURSIVE IsqrtFrom(_, _)
IsqrtFrom(n, x) ==
    LET y == (x + (n \div x)) \div 2
    IN IF y >= x THEN x ELSE IsqrtFrom(n, y)

Isqrt(n) == IF n < 2 THEN n ELSE IsqrtFrom(n, Min(n, 46340))

\* math.sqrt(n) in tenths: ten times the root, interpolated between the
\* neighbouring squares
SqrtTenths(n) ==
    LET r == Isqrt(n)
    IN 10 * r + ((10 * (n - r * r)) \div (2 * r + 1))

\* math.cos(math.radians(lat)) times 10^4, lat in microdegrees:
\* 1 - x^2/2 + x^4/24 - x^6/720 with x in 10^-4 rad
Cos4(lat) ==
    LET x  == (Quot(lat, 1000) * 17453) \div 100000
        x2 == (x * x) \div 10000
        x4 == (x2 * x2) \div 10000
        x6 == (x4 * x2) \div 10000
    IN 10000 - (x2 \div 2) + (x4 \div 24) - (x6 \div 720)

\* the chord term: sqrt(a) of the haversine formula as an angle in tenths
\* of a microdegree, a = sin^2(dphi/2) + cos(phi1) cos(phi2) sin^2(dlam/2);
\* large legs are halved first so that the squares stay in range
RECURSIVE ChordTenths(_, _, _, _)
ChordTenths(dphi, dlam, c1, c2) ==
    IF Abs(dphi) > 30000 \/ Abs(dlam) > 30000
    THEN 2 * ChordTenths(Quot(dphi, 2), Quot(dlam, 2), c1, c2)
    ELSE SqrtTenths(dphi * dphi
                    + ((Abs(dlam) * c1) \div 10000) * ((Abs(dlam) * c2) \div 10000))

\* `R * c` with R = 6371 km: the arc of an angle given in tenths of a
\* microdegree, in distance units (via nanoradians and centimetres)
EarthArc(chord) ==
    LET nrad == (chord * 1745) \div 1000
        cm   == IF nrad <= 300000
                THEN (nrad * 6371) \div 10000
                ELSE ((nrad \div 10) * 6371) \div 1000
    IN (cm * (DistUnitsPerKm \div 100)) \div 1000

\* RouteSimulator.haversine (the atan2 form)
haversine(lat1, lon1, lat2, lon2) ==
    EarthArc(ChordTenths(lat2 - lat1, lon2 - lon1, Cos4(lat1), Cos4(lat2)))

\* ambulance_simulator.haversine_distance (the asin form)
haversine_distance(lat1, lon1, lat2, lon2) ==
    EarthArc(ChordTenths(lat2 - lat1, lon2 - lon1, Cos4(lat1), Cos4(lat2)))

-----------------------------------------------------------------------------
(* RouteSimulator of realtime.  Elapsed time is in route ticks of 0.5 s.   *)

\* realtime: ROUTE_WAYPOINTS
RtWaypoints ==
    << [lat |-> 23183000, lon |-> 77416000],
       [lat |-> 23185000, lon |-> 77414000],
       [lat |-> 23188000, lon |-> 77410000],
       [lat |-> 23192000, lon |-> 77408000],
       [lat |-> 23197000, lon |-> 77412000],
       [lat |-> 23202000, lon |-> 77416000],
       [lat |-> 23206000, lon |-> 77418000],
       [lat |-> 23210000, lon |-> 77420000],
       [lat |-> 23215600, lon |-> 77430400] >>

AMBULANCE_SPEED_KPH == 40

\* ROUTE_DISTANCE_KM = 5.28
ROUTE_DISTANCE_KM == (528 * DistUnitsPerKm) \div 100

\* the leg from waypoint i to waypoint i + 1
SegmentDistance(wp, i) ==
    haversine(wp[i].lat, wp[i].lon, wp[i + 1].lat, wp[i + 1].lon)

\* RouteSimulator.calculate_total_distance
RECURSIVE SumLegs(_, _)
SumLegs(wp, n) == IF n <= 0 THEN 0 ELSE SumLegs(wp, n - 1) + SegmentDistance(wp, n)

calculate_total_distance(wp) == SumLegs(wp, Len(wp) - 1)

\* `self.total_distance` of RouteSimulator(ROUTE_WAYPOINTS)
total_distance == calculate_total_distance(RtWaypoints)

\* the legs of ROUTE_WAYPOINTS, as get_current_position computes them
RtLegs == [i \in 1 .. Len(RtWaypoints) - 1 |-> SegmentDistance(RtWaypoints, i)]

\* a route that starts over at its end, as LocationGenerator does
TraveledLap(kph, elapsed) == (kph * elapsed) % ROUTE_DISTANCE_KM

\* `min(AMBULANCE_SPEED_KPH * elapsed_hours, ROUTE_DISTANCE_KM)`
Traveled(kph, elapsed) == Min(kph * elapsed, ROUTE_DISTANCE_KM)

\* the loop of get_current_position from leg i on, distance_so_far given;
\* legs[i] is the haversine length of the leg from waypoint i
RECURSIVE WalkRoute(_, _, _, _, _)
WalkRoute(wp, legs, traveled, i, distance_so_far) ==
    IF i > Len(wp) - 1
    THEN \* Reached destination: `self.waypoints[-1]`
         IF Len(wp) = 0
         THEN [fault |-> "IndexError"]
         ELSE [fault |-> "none",
               lat |-> wp[Len(wp)].lat, lon |-> wp[Len(wp)].lon,
               distance |-> ROUTE_DISTANCE_KM, segment |-> Len(wp) - 2]
    ELSE LET segment_distance == legs[i]
         IN IF distance_so_far + segment_distance >= traveled
            THEN IF segment_distance = 0
                 THEN \* `... / segment_distance`
                      [fault |-> "ZeroDivisionError"]
                 ELSE
                 [fault |-> "none",
                  lat |-> wp[i].lat
                          + Quot((wp[i + 1].lat - wp[i].lat) * (traveled - distance_so_far),
                                 segment_distance),
                  lon |-> wp[i].lon
                          + Quot((wp[i + 1].lon - wp[i].lon) * (traveled - distance_so_far),
                                 segment_distance),
                  distance |-> traveled, segment |-> i - 1]
            ELSE WalkRoute(wp, legs, traveled, i + 1, distance_so_far + segment_distance)

\* RouteSimulator.get_current_position at time.time() - start_time = elapsed
LegsOf(wp) ==
    IF wp = RtWaypoints
    THEN RtLegs
    ELSE [i \in 1 .. Len(wp) - 1 |-> SegmentDistance(wp, i)]

get_current_position(wp, kph, elapsed) ==
    WalkRoute(wp, LegsOf(wp), Traveled(kph, elapsed), 1, 0)

\* `remaining_distance = max(0, ROUTE_DISTANCE_KM - distance_traveled)`
\* (RemainingSigned: the distance left without the max)
RemainingSigned(kph, elapsed) == ROUTE_DISTANCE_KM - kph * elapsed

Remaining(kph, elapsed) == Max(0, ROUTE_DISTANCE_KM - kph * elapsed)

\* RouteSimulator.get_remaining_time_seconds: int(remaining_hours * 3600)
get_remaining_time_seconds(kph, elapsed) ==
    IF kph = 0
    THEN 0
    ELSE Remaining(kph, elapsed) \div (kph * RouteTicksPerSecond)

\* round(n / d) to the nearest integer, ties to the even one, for n >= 0
RoundHalfEven(n, d) ==
    LET q == n \div d
        r == n % d
    IN IF 2 * r < d \/ (2 * r = d /\ q % 2 = 0) THEN q ELSE q + 1

\* round(distance, 2) of a distance in km, in hundredths of a km
RoundKm2(d) == RoundHalfEven(100 * d, DistUnitsPerKm)

\* publish_location: the payload, with the unrounded result it was made from
LocationData(wp, kph, t) ==
    LET pos == get_current_position(wp, kph, t)
    IN [lat |-> pos.lat, lon |-> pos.lon,
        distance_from_start |-> RoundKm2(pos.distance),
        distance |-> pos.distance, segment |-> pos.segment, at |-> t]

\* publish_eta: the payload; t1 is the clock read by
\* get_remaining_time_seconds, t2 the one read for remaining_km
EtaData(kph, t1, t2) ==
    LET remaining_seconds == get_remaining_time_seconds(kph, t1)
    IN [eta_seconds |-> remaining_seconds,
        eta_minutes |-> remaining_seconds \div 60,
        remaining_km |-> Remaining(kph, t2),
        status |-> IF remaining_seconds = 0 THEN "arrived" ELSE "en_route",
        at |-> t1]

-----------------------------------------------------------------------------
(* LocationGenerator of generator.  Positions are in microdegrees.         *)

\* `self.speed = 0.0002`, degrees per update
LocationSpeed == 200

\* LocationGenerator.__init__
LocationGeneratorInit == [current_lat |-> START_LAT, current_lon |-> START_LON]

\* n / d rounded to the nearest integer, for d > 0
DivNearest(n, d) ==
    IF n >= 0 THEN (2 * n + d) \div (2 * d) ELSE 0 - ((2 * (0 - n) + d) \div (2 * d))

\* math.sqrt(lat_diff**2 + lon_diff**2); large legs are halved first so that
\* the squares stay in range
RECURSIVE Hypot(_, _)
Hypot(a, b) ==
    IF Abs(a) > 30000 \/ Abs(b) > 30000
    THEN 2 * Hypot(Quot(a, 2), Quot(b, 2))
    ELSE Isqrt(a * a + b * b)

\* the distance to the destination in microdegrees
DistanceDeg(g) == Hypot(DEST_LAT - g.current_lat, DEST_LON - g.current_lon)

\* LocationGenerator.calculate_distance: round(distance_deg * 111, 2), in
\* hundredths of a km
LocationGenerator_calculate_distance(g) == RoundHalfEven(DistanceDeg(g) * 111, 10000)

\* LocationGenerator.calculate_eta: int(hours * 60) with hours = distance / 60
LocationGenerator_calculate_eta(g) == LocationGenerator_calculate_distance(g) \div 100

\* the branch `if distance > self.speed` of generate
Moving(g) == DistanceDeg(g) > LocationSpeed

\* LocationGenerator.generate, SIMULATION_MODE == "moving": the new position
LocationStep(g) ==
    LET lat_diff == DEST_LAT - g.current_lat
        lon_diff == DEST_LON - g.current_lon
        distance == Hypot(lat_diff, lon_diff)
    IN IF distance > LocationSpeed
       THEN [current_lat |-> g.current_lat + DivNearest(lat_diff * LocationSpeed, distance),
             current_lon |-> g.current_lon + DivNearest(lon_diff * LocationSpeed, distance)]
       ELSE \* Reached destination, reset
            LocationGeneratorInit

\* random.uniform(-0.00005, 0.00005): the ends and the middle
JitterDraws == {0 - 50, 0, 50}

\* LocationGenerator.calculate_heading: angle = atan2(lon_diff, lat_diff) in
\* degrees, index = int((angle + 22.5) / 45) % 8.  The angle is compared with
\* 22.5, 67.5, 112.5 and 157.5 degrees through tan(22.5) = 0.4142 =
\* 1 / tan(67.5); int() truncates toward zero, so that on the west side the
\* index is -((|angle| - 22.5) div 45) % 8.
calculate_heading(g) ==
    LET x == DEST_LAT - g.current_lat
        y == DEST_LON - g.current_lon
        u == Abs(y)
        n == IF (x > 0 /\ u * 10000 < x * 4142) \/ (x = 0 /\ u = 0) THEN 0
             ELSE IF x > 0 /\ u * 4142 < x * 10000 THEN 1
             ELSE IF ~(x < 0 /\ u * 4142 <= (0 - x) * 10000) THEN 2
             ELSE IF ~(x < 0 /\ u * 10000 <= (0 - x) * 4142) THEN 3
             ELSE 4
        west == IF n <= 1 THEN 0 ELSE 9 - n
        directions == << "North", "Northeast", "East", "Southeast",
                         "South", "Southwest", "West", "Northwest" >>
    IN directions[(IF y >= 0 THEN n ELSE west) + 1]

\* LocationGenerator.generate: the payload for a position and its jitter
LocationPayload(g, lat_jitter, lon_jitter) ==
    [lat |-> g.current_lat + lat_jitter,
     lon |-> g.current_lon + lon_jitter,
     heading |-> calculate_heading(g),
     distance |-> LocationGenerator_calculate_distance(g),
     eta |-> LocationGenerator_calculate_eta(g),
     speed |-> 60]

-----------------------------------------------------------------------------
(* ambulance_simulator: the interpolated route and the ETA per point.      *)

\* simulator: ROUTE_WAYPOINTS
SimWaypoints ==
    << [lat |-> 23259900, lon |-> 77412600],
       [lat |-> 23258000, lon |-> 77414000],
       [lat |-> 23255000, lon |-> 77416500],
       [lat |-> 23251000, lon |-> 77419000],
       [lat |-> 23247000, lon |-> 77422000],
       [lat |-> 23242000, lon |-> 77425000],
       [lat |-> 23236000, lon |-> 77427500],
       [lat |-> 23230000, lon |-> 77429000],
       [lat |-> 23224000, lon |-> 77430000],
       [lat |-> 23219000, lon |-> 77430500],
       [lat |-> 23215600, lon |-> 77430400] >>

SPEED_KMH == 50
POINTS_PER_SEGMENT == 20

\* interpolate_points: point i of range(num_points + 1)
interpolate_points(start, end, num_points, i) ==
    [lat |-> start.lat + Quot((end.lat - start.lat) * i, num_points),
     lon |-> start.lon + Quot((end.lon - start.lon) * i, num_points)]

\* generate_route_points: num_points + 1 points per leg, both ends included,
\* each with the index of its leg; indexed from 0 as route_points is
generate_route_points(wp) ==
    [k \in 0 .. (Len(wp) - 1) * (POINTS_PER_SEGMENT + 1) - 1 |->
        LET seg == k \div (POINTS_PER_SEGMENT + 1)
            i   == k % (POINTS_PER_SEGMENT + 1)
            pt  == interpolate_points(wp[seg + 1], wp[seg + 2],
                                      POINTS_PER_SEGMENT, i)
        IN [lat |-> pt.lat, lon |-> pt.lon, segment |-> seg]]

\* `route_points = generate_route_points()` for the ROUTE_WAYPOINTS of the script
route_points == generate_route_points(SimWaypoints)

\* `total_points = len(route_points)`
total_points == (Len(SimWaypoints) - 1) * (POINTS_PER_SEGMENT + 1)

\* the step from point k to point k + 1
PointLeg(k) ==
    haversine_distance(route_points[k].lat, route_points[k].lon,
                       route_points[k + 1].lat, route_points[k + 1].lon)

\* the sum of PointLeg(i) for i in range(a, b), added up by halves
RECURSIVE SumPointLegs(_, _)
SumPointLegs(a, b) ==
    IF a >= b THEN 0
    ELSE IF b = a + 1 THEN PointLeg(a)
    ELSE SumPointLegs(a, (a + b) \div 2) + SumPointLegs((a + b) \div 2, b)

\* the loop `for i in range(current_point_index, total_points - 1)` of main:
\* the haversine distance still ahead of point k
remaining_distance == [k \in 0 .. total_points - 1 |-> SumPointLegs(k, total_points - 1)]

\* the distance already behind point k
covered_distance == [k \in 0 .. total_points - 1 |-> SumPointLegs(0, k)]

\* route_points, total_points and remaining_distance for a run whose
\* ROUTE_WAYPOINTS are wp
RoutePoints(wp) == IF wp = SimWaypoints THEN route_points ELSE generate_route_points(wp)

TotalPoints(wp) == (Len(wp) - 1) * (POINTS_PER_SEGMENT + 1)

\* the sum of the steps from point a to point b of pts, added up by halves
RECURSIVE SumSteps(_, _, _)
SumSteps(pts, a, b) ==
    IF a >= b THEN 0
    ELSE IF b = a + 1
         THEN haversine_distance(pts[a].lat, pts[a].lon, pts[b].lat, pts[b].lon)
         ELSE SumSteps(pts, a, (a + b) \div 2) + SumSteps(pts, (a + b) \div 2, b)

RemainingDistance(wp, k) ==
    IF wp = SimWaypoints
    THEN remaining_distance[k]
    ELSE SumSteps(generate_route_points(wp), k, TotalPoints(wp) - 1)

\* calculate_eta: minutes = int(hours * 60), seconds = int((hours * 3600) % 60)
calculate_eta(current_distance_km, speed_kmh) ==
    IF speed_kmh = 0
    THEN \* `hours = current_distance_km / speed_kmh`
         [fault |-> "ZeroDivisionError"]
    ELSE [fault |-> "none",
          minutes |-> current_distance_km \div (speed_kmh * 60 * RouteTicksPerSecond),
          seconds |-> (current_distance_km \div (speed_kmh * RouteTicksPerSecond)) % 60]

\* main: `status` of the point at index k of n (SimStatusLate: "arrived"
\* one index later, which no pass of the loop reaches)
SimStatusLate(k, n) ==
    IF k = 0 THEN "pickup"
    ELSE IF k >= n THEN "arrived"
    ELSE "en_route"

SimStatusOf(k, n) ==
    IF k = 0 THEN "pickup"
    ELSE IF k >= n - 1 THEN "arrived"
    ELSE "en_route"

-----------------------------------------------------------------------------
(* SpecRoute: the route producers of the three scripts.                    *)
(*   realtime   one iteration of the loop of main() as far as it concerns  *)
(*              the route: the location and the ETA producer, which read   *)
(*              the clock again when they run (the other producers of the  *)
(*              iteration do not touch the route; see Spec for the loop)   *)
(*   generator  an iteration of the loop of main() that publishes the      *)
(*              location and then the ETA                                  *)
(*   simulator  one pass of the point loop of main()                       *)

\* time.time() when RouteSimulator is constructed: beyond every cadence
StartTime == 2 ^ 30

\* LOCATION_INTERVAL, ETA_INTERVAL of realtime in route ticks
RouteCadence(p) == (Cadence("realtime", p) * RouteTicksPerSecond) \div GranulesPerSecond

\* the time from the loop iteration at `now` to the next modelled one, in
\* route ticks: the next tick or, at every RouteStall-th tick, a long pause
RouteSteps(now) == IF now % RouteStall = 0 THEN {1, RouteStall} ELSE {1}

\* the clock reads of one iteration are far less than a tick apart: each
\* falls in the tick in which the iteration began or in the next one
ReadDelays == 0 .. 1

RouteInit ==
    /\ variant \in {"realtime", "generator", "simulator"}
    /\ SchedIdle
    /\ FairIdle
    /\ VitalsIdle
    /\ EnvIdle
    /\ WireStarted
    /\ rtClock = 0
    /\ rtLast = IF variant = "realtime"
                THEN [p \in {"location", "eta"} |-> 0 - StartTime]
                ELSE << >>
    /\ locSample = << >>
    /\ etaSample = << >>
    /\ location_gen = IF variant = "generator" THEN LocationGeneratorInit ELSE << >>
    /\ current_point_index = 0
    /\ simStatus = IF variant = "simulator" THEN "running" ELSE "idle"
    /\ waypoints = CASE variant = "realtime"  -> RtWaypoints
                     [] variant = "simulator" -> SimWaypoints
                     [] OTHER                 -> << >>
    /\ speed = CASE variant = "realtime"  -> AMBULANCE_SPEED_KPH
                 [] variant = "simulator" -> SPEED_KMH
                 [] OTHER                 -> 0
    /\ fault = "none"

\* realtime main(): `current_time = time.time()`, the location and ETA checks,
\* `time.sleep(0.1)`
RealtimeIterate ==
    /\ variant = "realtime"
    /\ fault = "none"
    /\ rtClock <= MaxElapsed
    /\ LET now    == rtClock
           dueLoc == Due(now, rtLast["location"], RouteCadence("location"))
           dueEta == Due(now, rtLast["eta"], RouteCadence("eta"))
       IN \E e1 \in ReadDelays, e2 \in ReadDelays, e3 \in ReadDelays :
          \E d \in RouteSteps(now) :
            /\ e1 + e2 + e3 \in ReadDelays
            /\ d = 1 \/ now + d <= MaxElapsed
            /\ IF dueLoc /\ get_current_position(waypoints, speed, now + e1).fault # "none"
               THEN \* the exception leaves publish_location and main()
                    /\ fault' = get_current_position(waypoints, speed, now + e1).fault
                    /\ UNCHANGED <<locSample, etaSample, rtLast, rtClock, sent>>
               ELSE /\ locSample' = IF dueLoc
                                    THEN LocationData(waypoints, speed, now + e1)
                                    ELSE locSample
                    /\ etaSample' = IF dueEta
                                    THEN EtaData(speed, now + e1 + e2, now + e1 + e2 + e3)
                                    ELSE etaSample
                    /\ rtLast' = [p \in {"location", "eta"} |->
                                    IF (p = "location" /\ dueLoc) \/ (p = "eta" /\ dueEta)
                                    THEN Advance(now, rtLast[p], RouteCadence(p))
                                    ELSE rtLast[p]]
                    /\ rtClock' = now + d
                    /\ sent' = IF dueLoc \/ dueEta
                               THEN (IF dueLoc
                                     THEN <<PeriodicMessage(variant, "location")>>
                                     ELSE << >>)
                                    \o (IF dueEta
                                        THEN <<PeriodicMessage(variant, "eta")>>
                                        ELSE << >>)
                               ELSE sent
                    /\ UNCHANGED fault
    /\ UNCHANGED <<location_gen, current_point_index, simStatus, waypoints, speed>>
    /\ UNCHANGED <<variant, schedVars, fairVars, vitalsVars, envVars, current_location,
                   ecgVars, measured, snapshot, profiles>>

\* publish_location: `current_location = data`, the name is bound to the new
\* dict (UpdateLatLon: the position is copied into the old dict)
UpdateLatLon(old, data) == [old EXCEPT !.lat = data.lat, !.lon = data.lon]

UpdateShared(old, data) == data

\* generator main(): an iteration in which location and ETA are due.  Both
\* have a cadence of 5 s and start from last_* = 0, so they are due in the
\* same iterations: publish_location runs, then publish_eta.
GeneratorIterate ==
    /\ variant = "generator"
    /\ location_gen' = LocationStep(location_gen)
    /\ \E lat_jitter \in JitterDraws, lon_jitter \in JitterDraws :
          locSample' = LocationPayload(location_gen', lat_jitter, lon_jitter)
    /\ current_location' = UpdateShared(current_location, locSample')
    /\ \E drawn \in Draws(40, 65) :
          etaSample' = [eta |-> LocationGenerator_calculate_eta(location_gen'),
                        distance |-> LocationGenerator_calculate_distance(location_gen'),
                        speed |-> drawn]
    /\ sent' = <<PeriodicMessage(variant, "location"), PeriodicMessage(variant, "eta")>>
    /\ UNCHANGED <<rtClock, rtLast, current_point_index, simStatus, waypoints,
                   speed, fault>>
    /\ UNCHANGED <<variant, schedVars, fairVars, vitalsVars, envVars, ecgVars, measured, snapshot, profiles>>

\* simulator main(): one pass of `while current_point_index < total_points`
SimulatorStep ==
    /\ variant = "simulator"
    /\ simStatus = "running"
    /\ fault = "none"
    /\ current_point_index < TotalPoints(waypoints)
    /\ LET point  == RoutePoints(waypoints)[current_point_index]
           remain == RemainingDistance(waypoints, current_point_index)
           eta    == calculate_eta(remain, speed)
           status == SimStatusOf(current_point_index, TotalPoints(waypoints))
       IN IF eta.fault # "none"
          THEN \* the exception leaves calculate_eta and, through the
               \* finally block, main()
               /\ fault' = eta.fault
               /\ released' = ReleasePublisher(released)
               /\ UNCHANGED <<locSample, etaSample, vitalsSample, vitalsCalls,
                              current_point_index, simStatus, sent>>
          ELSE /\ locSample' = [lat |-> point.lat, lon |-> point.lon,
                                speed_kmh |-> speed, status |-> status,
                                location_name |-> point.segment]
               /\ etaSample' = [eta_minutes |-> eta.minutes, eta_seconds |-> eta.seconds,
                                remaining_km |-> RoundKm2(remain), remaining |-> remain,
                                status |-> status]
               /\ IF current_point_index % 5 = 0
                  THEN /\ \E d \in SimulatorDraws : vitalsSample' = generate_vitals(d)
                       /\ vitalsCalls' = vitalsCalls + 1
                       /\ sent' = <<PeriodicMessage(variant, "location"),
                                    PeriodicMessage(variant, "eta"),
                                    PeriodicMessage(variant, "vitals")>>
                  ELSE /\ sent' = <<PeriodicMessage(variant, "location"),
                                    PeriodicMessage(variant, "eta")>>
                       /\ UNCHANGED <<vitalsSample, vitalsCalls>>
               /\ IF status = "arrived"
                  THEN \* `break`, then the finally block
                       /\ simStatus' = "done"
                       /\ released' = ReleasePublisher(released)
                       /\ UNCHANGED current_point_index
                  ELSE /\ current_point_index' = current_point_index + 1
                       /\ UNCHANGED <<simStatus, released>>
               /\ UNCHANGED fault
    /\ UNCHANGED <<rtClock, rtLast, location_gen, waypoints, speed>>
    /\ UNCHANGED <<variant, vitals_gen, schedVars, fairVars, hazards, current_location,
                   ecgVars, measured, snapshot, profiles>>

RouteNext ==
    \/ RealtimeIterate
    \/ GeneratorIterate
    \/ SimulatorStep

SpecRoute == RouteInit /\ [][RouteNext]_vars

\* SpecRouteFair: the two scripts that publish an ETA counting down to an
\* arrival, with their loops kept running (the process is scheduled and the
\* calls to the broker return)
RouteFairInit ==
    /\ RouteInit
    /\ variant \in {"realtime", "simulator"}

RouteFairNext ==
    \/ RealtimeIterate
    \/ SimulatorStep

SpecRouteFair == RouteFairInit /\ [][RouteFairNext]_vars /\ WF_vars(RouteFairNext)

-----------------------------------------------------------------------------
(* Claims about the route producers.                                       *)

\* the position is the last waypoint of ROUTE_WAYPOINTS
AtFinalWaypoint(sample) ==
    /\ sample.lat = RtWaypoints[Len(RtWaypoints)].lat
    /\ sample.lon = RtWaypoints[Len(RtWaypoints)].lon

\* C6: the distance traveled that get_current_position returns lies between
\* 0 and the sum of the haversine legs of the waypoints, the value
\* calculate_total_distance computes at construction.
CE_C6 ==
    (variant = "realtime" /\ locSample # << >>) =>
        (0 <= locSample.distance /\ locSample.distance <= total_distance)

\* how far a position lies from START along the line to DEST (a scaled
\* scalar product)
Along(sample) ==
    (sample.lat - START_LAT) * ((DEST_LAT - START_LAT) \div 100)
    + (sample.lon - START_LON) * ((DEST_LON - START_LON) \div 100)

\* C7: from one location sample to the next the vehicle never moves backward:
\* realtime - the distance traveled and the segment index do not decrease;
\* generator - while the destination is not reached the distance to it
\*   shrinks and the published position advances along the route;
\* simulator - the point index, its leg and the distance covered do not
\*   decrease.
Thm_C7 ==
    [][ /\ (variant = "realtime" /\ locSample # << >> /\ locSample' # locSample) =>
              /\ locSample.at < locSample'.at
              /\ locSample.distance <= locSample'.distance
              /\ locSample.segment <= locSample'.segment
        /\ (variant = "generator" /\ location_gen' # location_gen /\ Moving(location_gen)) =>
              /\ DistanceDeg(location_gen') < DistanceDeg(location_gen)
              /\ locSample # << >> =>
                    /\ Along(locSample) <= Along(locSample')
                    /\ locSample'.distance <= locSample.distance
        /\ (variant = "simulator" /\ locSample # << >> /\ locSample' # locSample) =>
              /\ current_point_index <= current_point_index'
              /\ locSample.location_name <= locSample'.location_name
              /\ covered_distance[current_point_index]
                    <= covered_distance[current_point_index']
      ]_vars

\* a realtime location sample on the sixth leg, past the middle of the route
Witness_C7 ==
    /\ variant = "realtime"
    /\ locSample # << >>
    /\ locSample.segment = 5
    /\ locSample.distance > total_distance \div 2

\* C8: a location sample and an ETA sample taken at the same elapsed time
\* agree on arrival: the position is the final waypoint exactly when the
\* distance traveled has reached the total distance, and then the ETA sample
\* says "arrived" with no distance remaining.
CE_C8 ==
    (/\ variant = "realtime"
     /\ locSample # << >>
     /\ etaSample # << >>
     /\ locSample.at = etaSample.at) =>
        /\ AtFinalWaypoint(locSample) <=> locSample.distance >= total_distance
        /\ AtFinalWaypoint(locSample) =>
              (etaSample.status = "arrived" /\ etaSample.remaining_km = 0)

\* the published ETA in seconds: realtime publishes it whole, the simulator
\* as minutes and seconds
EtaTotalSeconds(v, sample) ==
    IF v = "realtime"
    THEN sample.eta_seconds
    ELSE 60 * sample.eta_minutes + sample.eta_seconds

\* the distance remaining when the sample was computed, before any rounding
EtaUnrounded(v, sample) ==
    IF v = "realtime" THEN Remaining(AMBULANCE_SPEED_KPH, sample.at) ELSE sample.remaining

\* this step publishes an ETA sample: realtime stamps each sample with a new
\* clock reading, the simulator publishes one on every pass of its loop
EtaPublished ==
    IF variant = "realtime"
    THEN etaSample' # etaSample
    ELSE current_point_index' # current_point_index \/ simStatus' # simStatus

\* two samples that publish the same ETA although the remaining distances
\* they were computed from differ
RoundingTie(v, a, b) ==
    /\ EtaTotalSeconds(v, a) = EtaTotalSeconds(v, b)
    /\ EtaUnrounded(v, a) # EtaUnrounded(v, b)

\* C9: from one ETA sample to the next the published ETA never increases;
\* until it has reached 0 it is strictly smaller unless the two samples are a
\* rounding tie; and the ETA eventually reaches 0 (realtime and simulator).
CE_C9 ==
    /\ [][ (/\ variant \in {"realtime", "simulator"}
            /\ etaSample # << >>
            /\ EtaPublished) =>
              /\ EtaTotalSeconds(variant, etaSample') <= EtaTotalSeconds(variant, etaSample)
              /\ EtaTotalSeconds(variant, etaSample) > 0 =>
                    \/ EtaTotalSeconds(variant, etaSample') < EtaTotalSeconds(variant, etaSample)
                    \/ RoundingTie(variant, etaSample, etaSample')
         ]_vars
    /\ <>(etaSample # << >> /\ EtaTotalSeconds(variant, etaSample) = 0)

Arrived ==
    CASE variant = "generator" -> locSample # << >> /\ ~Moving(location_gen)
      [] variant = "realtime"  -> etaSample # << >> /\ etaSample.status = "arrived"
      [] OTHER                 -> simStatus = "done"

\* C11: after the vehicle has reached the destination no variant publishes a
\* location at the start of the route again or a remaining distance larger
\* than the one before: the generator and realtime keep publishing the
\* arrived state, the simulator publishes nothing more.
CE_C11 ==
    [][ Arrived =>
          CASE variant = "generator" ->
                   /\ location_gen' # LocationGeneratorInit
                   /\ locSample'.distance <= locSample.distance
                   /\ etaSample'.distance <= etaSample.distance
            [] variant = "realtime" ->
                   /\ etaSample'.remaining_km <= etaSample.remaining_km
                   /\ etaSample'.status = "arrived"
                   /\ locSample'.distance >= locSample.distance
            [] OTHER ->
                   /\ locSample' = locSample
                   /\ etaSample' = etaSample
      ]_vars


\* ---------------------------------------------------------------------------
\* The simulator run on a route of two waypoints
\* ---------------------------------------------------------------------------

\* `UPDATE_INTERVAL = 2`, the seconds slept after each published point
UPDATE_INTERVAL == 2

\* ROUTE_WAYPOINTS holding only the pickup and the destination
ScenarioWaypoints ==
    << [lat |-> 23259900, lon |-> 77412600],
       [lat |-> 23215600, lon |-> 77430400] >>

ScenarioInit ==
    /\ variant = "simulator"
    /\ SchedIdle
    /\ FairIdle
    /\ VitalsIdle
    /\ EnvIdle
    /\ WireStarted
    /\ rtClock = 0
    /\ rtLast = << >>
    /\ locSample = << >>
    /\ etaSample = << >>
    /\ location_gen = << >>
    /\ current_point_index = 0
    /\ simStatus = "running"
    /\ waypoints = ScenarioWaypoints
    /\ speed = SPEED_KMH
    /\ fault = "none"

ScenarioNext == SimulatorStep

SpecScenario == ScenarioInit /\ [][ScenarioNext]_vars

\* the index of the point published last, and the seconds main has slept
\* before publishing it: one UPDATE_INTERVAL after every earlier point
PublishedIndex ==
    IF simStatus = "done" THEN current_point_index ELSE current_point_index - 1

ElapsedSeconds == PublishedIndex * UPDATE_INTERVAL

\* the seconds the whole route takes at SPEED_KMH
TravelSeconds ==
    (RemainingDistance(waypoints, 0) * 3600) \div (SPEED_KMH * DistUnitsPerKm)

\* C12: on the route of two waypoints the first location is the first waypoint
\* with status "pickup", every later one before the last is "en_route", and the
\* one "arrived" sample is the last, has remaining distance 0 and is published
\* when the elapsed time, the updates times the update interval, is the travel
\* time of the route at 50 km/h (within one update interval).
CE_C12 ==
    (variant = "simulator" /\ locSample # << >>) =>
        /\ locSample.status = "pickup" <=> PublishedIndex = 0
        /\ locSample.status = "pickup" =>
               /\ locSample.lat = waypoints[1].lat
               /\ locSample.lon = waypoints[1].lon
        /\ (PublishedIndex > 0 /\ PublishedIndex < TotalPoints(waypoints) - 1)
               => locSample.status = "en_route"
        /\ locSample.status = "arrived" <=> simStatus = "done"
        /\ locSample.status = "arrived" =>
               /\ PublishedIndex = TotalPoints(waypoints) - 1
               /\ etaSample.remaining = 0
               /\ Abs(ElapsedSeconds - TravelSeconds) <= UPDATE_INTERVAL

\* the same without the elapsed time of the arrival
C12_StatusOrder ==
    (variant = "simulator" /\ locSample # << >>) =>
        /\ locSample.status = "pickup" <=> PublishedIndex = 0
        /\ (PublishedIndex > 0 /\ PublishedIndex < TotalPoints(waypoints) - 1)
               => locSample.status = "en_route"
        /\ locSample.status = "arrived" <=> simStatus = "done"
        /\ locSample.status = "arrived" =>
               /\ PublishedIndex = TotalPoints(waypoints) - 1
               /\ etaSample.remaining = 0


\* ---------------------------------------------------------------------------
\* SpecEdge: realtime and simulator started with other routes and speeds
\* ---------------------------------------------------------------------------

\* routes with two identical consecutive waypoints: as the first leg, as a
\* leg in the middle, as the last leg
ZeroLegRoutes ==
    { << RtWaypoints[1], RtWaypoints[1], RtWaypoints[2] >>,
      << RtWaypoints[1], RtWaypoints[2], RtWaypoints[2], RtWaypoints[3] >>,
      << RtWaypoints[1], RtWaypoints[2], RtWaypoints[2] >> }

\* routes of fewer than two waypoints
MalformedRoutes == { << >>, << RtWaypoints[1] >> }

\* the routes and speeds a run is started with
EdgeRoutes(v) ==
    IF v = "realtime"
    THEN {RtWaypoints} \cup ZeroLegRoutes \cup MalformedRoutes
    ELSE {ScenarioWaypoints}

EdgeSpeeds(v) == IF v = "realtime" THEN {0, AMBULANCE_SPEED_KPH} ELSE {0, SPEED_KMH}

\* the scripts as main() finds them when the loop starts: RouteSimulator(
\* ROUTE_WAYPOINTS) has been constructed; __init__ stores the waypoints and
\* adds up the legs there are, and raises for no route
EdgeInit ==
    /\ variant \in {"realtime", "simulator"}
    /\ SchedIdle
    /\ FairIdle
    /\ VitalsIdle
    /\ EnvIdle
    /\ WireStarted
    /\ rtClock = 0
    /\ rtLast = IF variant = "realtime"
                THEN [p \in {"location", "eta"} |-> 0 - StartTime]
                ELSE << >>
    /\ locSample = << >>
    /\ etaSample = << >>
    /\ location_gen = << >>
    /\ current_point_index = 0
    /\ simStatus = IF variant = "simulator" THEN "running" ELSE "idle"
    /\ waypoints \in EdgeRoutes(variant)
    /\ speed \in EdgeSpeeds(variant)
    /\ fault = "none"

EdgeNext ==
    \/ RealtimeIterate
    \/ SimulatorStep

SpecEdge == EdgeInit /\ [][EdgeNext]_vars

\* C13: on a route with a zero-length leg, wherever the leg is,
\* get_current_position never faults with a division by zero, at no elapsed
\* time, elapsed = 0 included.
CE_C13 ==
    (variant = "realtime" /\ waypoints \in ZeroLegRoutes /\ speed > 0)
        => fault # "ZeroDivisionError"

\* the same for the routes whose first leg has a length
C13_LaterLegs ==
    (/\ variant = "realtime"
     /\ waypoints \in ZeroLegRoutes
     /\ waypoints[1] # waypoints[2]
     /\ speed > 0)
        => fault = "none"


\* C14: with speed 0 the ETA computation raises no fault and publishes no
\* arrival: while distance remains, no ETA sample has eta 0 or status
\* "arrived" (get_remaining_time_seconds / publish_eta of realtime,
\* calculate_eta of the simulator).
CE_C14 ==
    (speed = 0 /\ waypoints \in {RtWaypoints, ScenarioWaypoints}) =>
        /\ fault = "none"
        /\ (variant = "realtime" /\ etaSample # << >> /\ etaSample.remaining_km > 0) =>
               /\ etaSample.eta_seconds # 0
               /\ etaSample.status # "arrived"
        /\ (variant = "simulator" /\ etaSample # << >> /\ etaSample.remaining > 0) =>
               /\ etaSample.eta_minutes + etaSample.eta_seconds # 0
               /\ etaSample.status # "arrived"


\* C15: a route of fewer than two waypoints is refused when RouteSimulator is
\* constructed: no position, distance or ETA sample is ever published from it.
CE_C15 ==
    (variant = "realtime" /\ waypoints \in MalformedRoutes) =>
        /\ locSample = << >>
        /\ etaSample = << >>


\* ---------------------------------------------------------------------------
\* SpecLoop: the three loops in a run where publishes can fail, producers
\* can raise and the user can press Ctrl-C
\* ---------------------------------------------------------------------------

Hazards == {"rc_fail", "raise", "interrupt"}

\* the position of main() inside the scheduler loop
RunningPcs == {"clock", "sleep"} \cup AllProducers

LoopInit ==
    /\ variant \in {"generator", "realtime", "simulator"}
    /\ clock0 = IF variant = "simulator" THEN 0 ELSE LargestCadence
    /\ clock = clock0
    /\ current_time = 0
    /\ last = IF variant = "simulator" THEN << >> ELSE [p \in AllProducers |-> 0]
    /\ pc = IF variant = "simulator" THEN "idle" ELSE "clock"
    /\ firedTick = << >>
    /\ invoked = << >>
    /\ FairIdle
    /\ VitalsIdle
    /\ rtClock = 0
    /\ rtLast = << >>
    /\ locSample = << >>
    /\ etaSample = << >>
    /\ location_gen = << >>
    /\ current_point_index = 0
    /\ simStatus = IF variant = "simulator" THEN "running" ELSE "idle"
    /\ waypoints = IF variant = "simulator" THEN SimWaypoints ELSE << >>
    /\ speed = IF variant = "simulator" THEN SPEED_KMH ELSE 0
    /\ fault = "none"
    /\ hazards = Hazards
    /\ released = [loop_stop |-> 0, disconnect |-> 0]
    /\ current_location = CurrentLocationInit(variant)
    /\ EcgIdle
    /\ WireStarted

\* generator and realtime main(): KeyboardInterrupt is raised somewhere in
\* the loop - before or after the publish of the producer that is running,
\* or during time.sleep - and `except KeyboardInterrupt` runs
Interrupt ==
    /\ "interrupt" \in hazards
    /\ pc \in RunningPcs
    /\ \E published \in IF pc \in AllProducers
                          /\ Due(current_time, last[pc], Cadence(variant, pc))
                       THEN BOOLEAN ELSE {FALSE} :
          IF published
          THEN /\ firedTick' = Append(firedTick, pc)
               /\ invoked' = [p |-> pc, at |-> current_time, prev |-> last[pc],
                              result |-> "success", reported |-> FALSE]
               /\ sent' = <<PeriodicMessage(variant, pc)>>
          ELSE UNCHANGED <<firedTick, invoked, sent>>
    /\ \E d \in IF pc = "sleep" THEN {0, SleepTime(variant)} ELSE {0} :
          clock' = clock + d
    /\ pc' = "exited"
    /\ released' = ReleasePublisher(released)
    /\ UNCHANGED <<variant, clock0, current_time, last, hazards, current_location>>
    /\ UNCHANGED <<fairVars, vitalsVars, routeVars, ecgVars, measured, snapshot, profiles>>

\* simulator main(): KeyboardInterrupt during time.sleep(UPDATE_INTERVAL);
\* `except KeyboardInterrupt` prints, the finally block releases
SimulatorInterrupt ==
    /\ "interrupt" \in hazards
    /\ variant = "simulator"
    /\ simStatus = "running"
    /\ fault = "none"
    /\ simStatus' = "stopped"
    /\ released' = ReleasePublisher(released)
    /\ UNCHANGED <<rtClock, rtLast, locSample, etaSample, location_gen,
                   current_point_index, waypoints, speed, fault>>
    /\ UNCHANGED <<variant, schedVars, fairVars, vitalsVars, hazards, current_location, ecgVars, measured, snapshot, wireVars>>

LoopNext ==
    \/ SchedNext
    \/ Interrupt
    \/ SimulatorStep
    \/ SimulatorInterrupt

SpecLoop == LoopInit /\ [][LoopNext]_vars


\* C16: when a producer raises an exception during a tick, the exception is
\* caught at the loop: main() is still inside its loop afterwards, so that the
\* other producers and, at its next cadence, the one that raised still fire.
CE_C16 ==
    (invoked # << >> /\ invoked.result = "raised") => pc \in RunningPcs


\* C17: a publish that returns a failure does not halt the loop - main() goes
\* on to the next producer, last_fired of the producer is set to the time of
\* the tick, so the sample is not retried before the next cadence - and the
\* failure is reported, whichever producer it is.
CE_C17 ==
    (invoked # << >> /\ invoked.result = "failure") =>
        /\ pc \in RunningPcs \cup {"exited"}
        /\ last[invoked.p] = invoked.at
        /\ invoked.reported

\* the same without the report
C17_NonFatal ==
    (invoked # << >> /\ invoked.result = "failure") =>
        /\ pc \in RunningPcs \cup {"exited"}
        /\ last[invoked.p] = invoked.at


\* main() has observed KeyboardInterrupt
Stopped == pc = "exited" \/ simStatus = "stopped"

\* C18: the step in which KeyboardInterrupt is observed ends the loop within
\* one polling interval and calls loop_stop and disconnect, each for the
\* first and only time; from then on no producer fires, nothing is published
\* and the connection is not released again - in all three scripts, whether
\* the signal arrives in a producer or in the sleep.
Thm_C18 ==
    [][ /\ (Stopped' /\ ~Stopped) =>
              /\ released' = [loop_stop |-> 1, disconnect |-> 1]
              /\ clock' - clock <= SleepTime(variant)
              /\ pc' \notin RunningPcs
              /\ simStatus' # "running"
        /\ Stopped =>
              UNCHANGED <<firedTick, invoked, last, locSample, etaSample,
                          vitalsSample, released, pc, simStatus>>
      ]_vars

\* the loop of a scheduler script was stopped during a sleep, after
\* producers had fired, and the connection has been released
Witness_C18 ==
    /\ pc = "exited"
    /\ invoked # << >>
    /\ firedTick # << >>
    /\ clock > current_time
    /\ released = [loop_stop |-> 1, disconnect |-> 1]


\* ---------------------------------------------------------------------------
\* SpecShared: the vitals and the location producer of the generator around
\* current_location
\* ---------------------------------------------------------------------------

\* the producer calls of a run of SpecShared
MaxShared == 3

\* how many location updates the vehicle has made since the start
MovesMade ==
    DivNearest(Hypot(location_gen.current_lat - START_LAT,
                     location_gen.current_lon - START_LON), LocationSpeed)

SharedInit ==
    /\ variant = "generator"
    /\ SchedIdle
    /\ FairIdle
    /\ EnvIdle
    /\ WireStarted
    /\ vitals_gen = VitalsGeneratorInit
    /\ vitalsSample = << >>
    /\ vitalsCalls = 0
    /\ rtClock = 0
    /\ rtLast = << >>
    /\ locSample = << >>
    /\ etaSample = << >>
    /\ location_gen = LocationGeneratorInit
    /\ current_point_index = 0
    /\ simStatus = "idle"
    /\ waypoints = << >>
    /\ speed = 0
    /\ fault = "none"

\* the loop of main() calls the producers one after the other, the vitals
\* producer every 2 s and the location producer every 5 s
SharedNext ==
    \/ vitalsCalls + MovesMade < MaxShared /\ PublishVitals
    \/ vitalsCalls + MovesMade < MaxShared /\ GeneratorIterate

SpecShared == SharedInit /\ [][SharedNext]_vars

\* the position the vitals producer finds: the location sample published
\* last, whole, or the start position
SharedPosition ==
    IF locSample = << >> THEN CurrentLocationInit(variant) ELSE locSample

\* C19: current_location is written by publish_location only, as one whole
\* replacement by the sample it publishes, and the gps and heading of every
\* vitals sample are those of one location sample: the one published last, or
\* the start position when none was published yet.
Thm_C19 ==
    [][ /\ current_location' # current_location =>
              /\ locSample' # locSample \/ location_gen' # location_gen
              /\ current_location' = locSample'
        /\ current_location' = SharedPosition'
        /\ vitalsCalls' # vitalsCalls =>
              /\ current_location' = current_location
              /\ vitalsSample'.heading = SharedPosition.heading
              /\ \E up_lat \in BOOLEAN, up_lon \in BOOLEAN :
                    vitalsSample'.gps =
                        [lat |-> Fixed4(SharedPosition.lat, up_lat),
                         lon |-> Fixed4(SharedPosition.lon, up_lon)]
      ]_vars

\* a vitals sample taken after a location sample was published: it has the
\* heading and the position of that sample, no longer those of the start
Witness_C19 ==
    /\ variant = "generator"
    /\ locSample # << >>
    /\ vitalsSample # << >>
    /\ vitalsSample.heading = locSample.heading
    /\ vitalsSample.heading # CurrentLocationInit(variant).heading
    /\ vitalsSample.gps.lat # Fixed4(START_LAT, TRUE)
    /\ vitalsSample.gps.lat \in {Fixed4(locSample.lat, TRUE), Fixed4(locSample.lat, FALSE)}


\* ---------------------------------------------------------------------------
\* SpecEcg: ECGGenerator of generator and realtime
\* ---------------------------------------------------------------------------
\* The heart rate is in hundredths of a beat per minute and the phase in
\* units of 1 / EcgCycle of a PQRST cycle, so that one sample at heart rate h
\* advances the phase by h: (heart_rate / 60.0) * 0.01 cycles in generator,
\* (heart_rate / 60) * (2 * pi) / 100 radians in realtime.

EcgCycle == 60 * 100 * 100

\* how many calls of generate one run of SpecEcg makes
MaxEcgCalls == 7

\* `random.random() * 2 * math.pi`: the start of a cycle, a point inside,
\* the last unit before the next cycle
PhaseDraws == {0, (EcgCycle \div 3) + 1, EcgCycle - 1}

\* ECGGenerator.__init__
ECGGeneratorInit(v, drawn) ==
    [phase |-> IF v = "realtime" THEN drawn ELSE 0, heart_rate |-> 75 * 100]

\* publish_ecg: `ecg_gen.generate()` in generator, `ecg_gen.generate(12)` in
\* realtime
NumSamples(v) == IF v = "realtime" THEN 12 ELSE 10

\* `self.phase += ...` (EcgAdvanceWrapped: the phase is kept inside one cycle)
EcgAdvanceWrapped(phase, heart_rate) == (phase + heart_rate) % EcgCycle

EcgAdvance(phase, heart_rate) == phase + heart_rate

\* the loop of generate: the phase each of the num_samples samples is
\* computed at, and the generator after the loop
RECURSIVE EcgLoop(_, _, _)
EcgLoop(g, at, num_samples) ==
    IF num_samples = 0
    THEN [gen |-> g, at |-> at]
    ELSE EcgLoop([g EXCEPT !.phase = EcgAdvance(g.phase, g.heart_rate)],
                 Append(at, g.phase), num_samples - 1)

\* ECGGenerator.generate; realtime first moves the heart rate by the drawn
\* amount and clamps it to 60..100
ECGGenerator_generate(v, g, drawn, num_samples) ==
    EcgLoop(IF v = "realtime"
            THEN [g EXCEPT !.heart_rate = Clamp(6000, 10000, g.heart_rate + drawn)]
            ELSE g,
            << >>, num_samples)

\* `t % 1.0` of generator and `(self.phase / (2 * math.pi)) % 1.0` of
\* realtime: the place inside the cycle, in units of 1/EcgCycle
CyclePlace(phase) == phase % EcgCycle

\* a fraction of the cycle given in hundredths, as a place inside the cycle
Cent(c) == c * (EcgCycle \div 100)

\* `lo < t < hi` (InFrom: the upper end of the window is not looked at)
InFrom(lo, hi, t) == lo < t

In(lo, hi, t) == lo < t /\ t < hi

\* math.sin(x * math.pi) for x = n / d, in hundredths; on 0 <= x <= 1 the
\* rational approximation 16 x (1 - x) / (5 - 4 x (1 - x)), whose error
\* stays below 0.002, and sin(-y) = -sin(y) below 0
SinPi(n, d) ==
    LET m == Abs(n) \div 100
        e == d \div 100
        body == (1600 * m * (e - m)) \div (5 * e * e - 4 * m * (e - m))
    IN IF n < 0 THEN 0 - body ELSE body

\* the three pulses of one sample at place t of the cycle, in thousandths
EcgPulse(v, t) ==
    IF v = "realtime"
    THEN [qrs    |-> IF In(Cent(35), Cent(45), t)
                     THEN 55 * SinPi(t - Cent(35), Cent(10)) ELSE 0,
          p_wave |-> IF In(Cent(12), Cent(28), t)
                     THEN 6 * SinPi(t - Cent(15), Cent(16)) ELSE 0,
          t_wave |-> IF In(Cent(50), Cent(75), t)
                     THEN 12 * SinPi(t - Cent(55), Cent(25)) ELSE 0]
    ELSE [qrs    |-> IF In(Cent(10), Cent(20), t)
                     THEN 50 * SinPi(t - Cent(10), Cent(10)) ELSE 0,
          p_wave |-> IF In(0, Cent(8), t)
                     THEN 5 * SinPi(t, Cent(8)) ELSE 0,
          t_wave |-> IF In(Cent(30), Cent(50), t)
                     THEN 12 * SinPi(t - Cent(30), Cent(20)) ELSE 0]

\* the largest magnitude of the noise term, in thousandths:
\* `random.uniform(-0.05, 0.05)` and `(random.random() - 0.5) * 0.25`
NoiseAmplitude(v) == IF v = "realtime" THEN 125 ELSE 50

\* the noise of the samples of one payload: all at the lower end, all at
\* the upper end, or going from one end through 0 to the other
NoiseDraws(v) ==
    LET a == NoiseAmplitude(v)
    IN {<<0 - a>>, <<a>>, <<0 - a, 0, a>>}

\* round(sample, 2) of a sample in thousandths
RoundSample(x) ==
    IF x < 0 THEN 0 - 10 * RoundHalfEven(0 - x, 10) ELSE 10 * RoundHalfEven(x, 10)

\* one sample of generate: the pulses, their sum with the noise, and what
\* is appended to samples (generator rounds it to two decimals)
EcgSampleAt(v, phase, noise) ==
    LET t == CyclePlace(phase)
        pulse == EcgPulse(v, t)
        sum == pulse.qrs + pulse.p_wave + pulse.t_wave + noise
    IN [t |-> t, qrs |-> pulse.qrs, p_wave |-> pulse.p_wave, t_wave |-> pulse.t_wave,
        sample |-> IF v = "realtime" THEN sum ELSE RoundSample(sum)]

EcgInit ==
    /\ variant \in {"generator", "realtime"}
    /\ SchedIdle
    /\ FairIdle
    /\ VitalsIdle
    /\ RouteIdle
    /\ hazards = {}
    /\ released = [loop_stop |-> 0, disconnect |-> 0]
    /\ current_location = CurrentLocationInit(variant)
    /\ WireStarted
    /\ \E drawn \in PhaseDraws : ecg_gen = ECGGeneratorInit(variant, drawn)
    /\ ecgSample = << >>
    /\ ecgCalls = 0
    /\ ecgWave = << >>

\* publish_ecg
PublishEcg ==
    /\ variant \in {"generator", "realtime"}
    /\ ecgCalls < MaxEcgCalls
    /\ \E drawn \in DrawsFine(-200, 200), noise \in NoiseDraws(variant) :
          LET out == ECGGenerator_generate(variant, ecg_gen, drawn, NumSamples(variant))
          IN /\ ecg_gen' = out.gen
             /\ ecgSample' = out.at
             /\ ecgWave' = [k \in 1 .. Len(out.at) |->
                               EcgSampleAt(variant, out.at[k], noise[((k - 1) % Len(noise)) + 1])]
    /\ ecgCalls' = ecgCalls + 1
    /\ sent' = <<PeriodicMessage(variant, "ecg")>>
    /\ UNCHANGED <<variant, schedVars, fairVars, vitalsVars, routeVars, envVars,
                   current_location, profiles, measured, snapshot>>

EcgNext == PublishEcg

SpecEcg == EcgInit /\ [][EcgNext]_vars

\* C20: the phase is never reset and grows with every sample: a call of
\* generate(n) computes n samples, the first at the phase the previous call
\* ended with, each later one at a larger phase than the one before, and
\* leaves the phase n increments of the heart rate further.
Thm_C20 ==
    [][ ecgCalls' # ecgCalls =>
          /\ Len(ecgSample') = NumSamples(variant)
          /\ ecgSample'[1] = ecg_gen.phase
          /\ \A k \in 1 .. Len(ecgSample') - 1 : ecgSample'[k + 1] > ecgSample'[k]
          /\ ecg_gen'.phase > ecgSample'[Len(ecgSample')]
          /\ ecg_gen'.phase = ecg_gen.phase + NumSamples(variant) * ecg_gen'.heart_rate
          /\ ecg_gen'.heart_rate > 0
      ]_vars

\* a later call of generate whose samples run across the end of a cycle
Witness_C20 ==
    /\ ecgCalls >= 2
    /\ ecgSample # << >>
    /\ ecgSample[1] < 2 * EcgCycle
    /\ ecg_gen.phase > 2 * EcgCycle


\* the rate at which ECG samples are produced: the batch of one call of
\* publish_ecg every ECG_INTERVAL
SamplesPerSecond(v) == (NumSamples(v) * GranulesPerSecond) \div Cadence(v, "ecg")

\* C21: between two consecutive ECG samples the phase advances by
\* (heartRate / 60) * (1 / samplesPerSecond) cycles, the samples per second
\* being the batch size over the ECG cadence: in units of 1 / EcgCycle and
\* with the heart rate in hundredths, increment * samplesPerSecond is
\* 100 * heart_rate, in both generators.
CE_C21 ==
    [][ ecgCalls' # ecgCalls =>
          \A k \in 1 .. Len(ecgSample') - 1 :
             (ecgSample'[k + 1] - ecgSample'[k]) * SamplesPerSecond(variant)
                = 100 * ecg_gen'.heart_rate
      ]_vars

\* the same with the 100 samples per second both generators are written for
C21_Hundred ==
    [][ ecgCalls' # ecgCalls =>
          \A k \in 1 .. Len(ecgSample') - 1 :
             (ecgSample'[k + 1] - ecgSample'[k]) * 100 = 100 * ecg_gen'.heart_rate
      ]_vars


\* the windows of the P wave, the QRS complex and the T wave inside the
\* cycle, as the specification names them
PWindow(v) == IF v = "realtime" THEN <<Cent(12), Cent(28)>> ELSE <<0, Cent(8)>>
QrsWindow(v) == IF v = "realtime" THEN <<Cent(35), Cent(45)>> ELSE <<Cent(10), Cent(20)>>
TWindow(v) == IF v = "realtime" THEN <<Cent(50), Cent(75)>> ELSE <<Cent(30), Cent(50)>>

Inside(w, t) == w[1] < t /\ t < w[2]

OutsideWindows(v, t) ==
    ~ Inside(PWindow(v), t) /\ ~ Inside(QrsWindow(v), t) /\ ~ Inside(TWindow(v), t)

\* C22: the P, QRS and T windows lie in that order inside the unit cycle, the
\* P and QRS windows do not overlap, and every sample generated at a place
\* of the cycle outside all three windows has no pulse in it: its value is
\* the noise alone, no larger in magnitude than the noise amplitude
Thm_C22 ==
    /\ 0 <= PWindow(variant)[1] /\ PWindow(variant)[1] < PWindow(variant)[2]
    /\ PWindow(variant)[2] <= QrsWindow(variant)[1]
    /\ QrsWindow(variant)[1] < QrsWindow(variant)[2]
    /\ QrsWindow(variant)[2] <= TWindow(variant)[1]
    /\ TWindow(variant)[1] < TWindow(variant)[2] /\ TWindow(variant)[2] <= EcgCycle
    /\ \A k \in 1 .. Len(ecgWave) :
          OutsideWindows(variant, ecgSample[k] % EcgCycle) =>
             /\ ecgWave[k].qrs = 0 /\ ecgWave[k].p_wave = 0 /\ ecgWave[k].t_wave = 0
             /\ Abs(ecgWave[k].sample) <= NoiseAmplitude(variant)

\* one payload holds a sample inside the QRS complex with a pulse in it and
\* a sample outside all three windows
Witness_C22 ==
    /\ \E k \in 1 .. Len(ecgWave) :
          Inside(QrsWindow(variant), ecgSample[k] % EcgCycle) /\ ecgWave[k].qrs > 0
    /\ \E k \in 1 .. Len(ecgWave) :
          /\ OutsideWindows(variant, ecgSample[k] % EcgCycle)
          /\ ecgWave[k].sample # 0


-----------------------------------------------------------------------------
\* SpecStart: main() of generator and realtime from its first line: the
\* connection, the patient profile, then the loop.

StartInit ==
    /\ variant \in {"generator", "realtime"}
    /\ clock0 \in StartClocks
    /\ clock = clock0
    /\ current_time = 0
    /\ last = << >>
    /\ pc = "connect"
    /\ firedTick = << >>
    /\ invoked = << >>
    /\ FairIdle
    /\ VitalsIdle
    /\ EnvIdle
    /\ RouteIdle
    /\ sent = << >>
    /\ profiles = 0
    /\ measured = << >>
    /\ snapshot = SnapshotIdle

\* `client.connect(...); client.loop_start()` and `time.sleep(2)`, or
\* `except Exception`: main() prints and returns
Connect ==
    /\ pc = "connect"
    /\ \E connected \in BOOLEAN :
          IF connected
          THEN /\ pc' = "profile"
               /\ clock' = clock + Seconds(2)
          ELSE /\ pc' = "terminated"
               /\ UNCHANGED clock
    /\ UNCHANGED <<variant, clock0, current_time, last, firedTick, invoked>>
    /\ UNCHANGED <<fairVars, vitalsVars, routeVars, envVars, current_location, ecgVars, measured, snapshot, wireVars>>

\* `publish_patient_profile()`, then the timing trackers `last_* = 0`
PublishPatientProfile ==
    /\ pc = "profile"
    /\ sent' = <<ProfileMessage>>
    /\ profiles' = profiles + 1
    /\ last' = [p \in AllProducers |-> 0]
    /\ pc' = "clock"
    /\ UNCHANGED <<variant, clock0, clock, current_time, firedTick, invoked>>
    /\ UNCHANGED <<fairVars, vitalsVars, routeVars, envVars, current_location, ecgVars, measured, snapshot>>

StartNext ==
    \/ Connect
    \/ PublishPatientProfile
    \/ SchedNext

SpecStart == StartInit /\ [][StartNext]_vars

\* C23: the patient profile is published once per run and never again, with
\* retain set, and nothing is published before it: main() is inside its loop
\* only after the one profile publish, and no periodic publish sets retain
Thm_C23 ==
    /\ profiles \in {0, 1}
    /\ profiles = 0 => sent = << >> /\ pc \in {"connect", "profile", "terminated"}
    /\ pc \in RunningPcs => profiles = 1
    /\ \A k \in 1 .. Len(sent) :
          /\ sent[k].retain <=> sent[k].topic = "patient_profile"
          /\ sent[k].topic = "patient_profile" \/ sent[k].topic \in AllProducers

\* the second tick of the loop has published a periodic message after the
\* one retained profile
Witness_C23 ==
    /\ profiles = 1
    /\ clock > clock0 + Seconds(2)
    /\ Len(sent) = 1
    /\ sent[1].topic = "ecg"
    /\ ~ sent[1].retain


\* what the specification asks of a message of a topic class
DeliveryQuality(m) ==
    /\ m.topic \in {"location", "eta"} => m.qos >= 1 /\ ~ m.retain
    /\ m.topic = "ecg" => m.qos = 0

\* C24: every location and every eta message of every script is published
\* with qos >= 1 and without retain, and every ecg message with qos 0
CE_C24 == \A k \in 1 .. Len(sent) : DeliveryQuality(sent[k])

\* the same for the two scripts that pass a qos argument
C24_Schedulers ==
    variant \in {"generator", "realtime"} => \A k \in 1 .. Len(sent) : DeliveryQuality(sent[k])


-----------------------------------------------------------------------------
\* SpecHav: the two haversine functions on pairs of points anywhere on the
\* sphere.  Coordinates are whole degrees, angles are in units of 10^-4 rad,
\* sines and cosines in units of 10^-4, and every operation rounds its
\* result to that unit, as every binary64 operation rounds to its own.

TrigUnit == 100 * 100
HalfPi == 31416 \div 2

\* math.radians(deg), deg >= 0
Radians(deg) == (deg * 17453) \div 100

\* sine and cosine on 0 .. pi/4 by their power series
SinSeries(x) ==
    LET x2 == (x * x) \div TrigUnit
        x3 == (x2 * x) \div TrigUnit
        x5 == (x3 * x2) \div TrigUnit
        x7 == (x5 * x2) \div TrigUnit
    IN x - (x3 \div 6) + (x5 \div 120) - (x7 \div 5040)

CosSeries(x) ==
    LET x2 == (x * x) \div TrigUnit
        x4 == (x2 * x2) \div TrigUnit
        x6 == (x4 * x2) \div TrigUnit
        x8 == (x6 * x2) \div TrigUnit
    IN TrigUnit - (x2 \div 2) + (x4 \div 24) - (x6 \div 720) + (x8 \div 40320)

\* math.sin(x) for 0 <= x <= pi
Sin4(x) ==
    LET y == IF x > HalfPi THEN 2 * HalfPi - x ELSE x
    IN IF 2 * y <= HalfPi THEN SinSeries(y) ELSE CosSeries(HalfPi - y)

\* math.cos(x) for 0 <= x <= pi/2
CosRad(x) == IF 2 * x <= HalfPi THEN CosSeries(x) ELSE SinSeries(HalfPi - x)

\* `a` of both functions, in units of 10^-8:
\* sin(dlat/2)**2 + cos(lat1) * cos(lat2) * sin(dlon/2)**2
HavA(lat1, lon1, lat2, lon2) ==
    LET s_lat == Sin4(Radians(Abs(lat2 - lat1)) \div 2)
        s_lon == Sin4(Radians(Abs(lon2 - lon1)) \div 2)
        c1 == CosRad(Radians(Abs(lat1)))
        c2 == CosRad(Radians(Abs(lat2)))
    IN s_lat * s_lat + ((c1 * c2) \div TrigUnit) * ((s_lon * s_lon) \div TrigUnit)

\* the least angle in lo .. hi at which the test holds, for a test that
\* holds from some angle on
RECURSIVE LeastAngle(_, _, _, _, _)
LeastAngle(asin, y, x, lo, hi) ==
    IF lo >= hi
    THEN lo
    ELSE LET mid == (lo + hi) \div 2
             ok  == IF asin THEN Sin4(mid) >= y
                            ELSE y * CosRad(mid) <= x * Sin4(mid)
         IN IF ok THEN LeastAngle(asin, y, x, lo, mid)
                  ELSE LeastAngle(asin, y, x, mid + 1, hi)

\* math.asin(y) for 0 <= y <= 1, rounded to the nearest angle: the middle
\* of the angles whose sine rounds to y
Asin4(y) ==
    IF y >= TrigUnit
    THEN HalfPi
    ELSE (LeastAngle(TRUE, y, 0, 0, HalfPi) + LeastAngle(TRUE, y + 1, 0, 0, HalfPi)) \div 2

\* math.atan2(y, x) for y, x >= 0, rounded to the nearest angle: of the two
\* angles around the one with tangent y / x, the one that is closer
Atan2(y, x) ==
    LET above == LeastAngle(FALSE, y, x, 0, HalfPi)
        below == above - 1
        off(angle) == Abs(x * Sin4(angle) - y * CosRad(angle))
    IN IF above > 0 /\ off(below) < off(above) THEN below ELSE above

\* `R * c` with R = 6371 km and c twice the half angle given, in metres
EarthMetres(half) == (2 * half * 6371) \div 10

\* ambulance_simulator.haversine_distance on the sphere:
\* c = 2 * math.asin(math.sqrt(a)); math.asin raises ValueError above 1
HavAsin(lat1, lon1, lat2, lon2) ==
    LET a == HavA(lat1, lon1, lat2, lon2)
    IN IF Isqrt(a) > TrigUnit
       THEN [fault |-> "ValueError", distance |-> 0]
       ELSE [fault |-> "none", distance |-> EarthMetres(Asin4(Isqrt(a)))]

\* RouteSimulator.haversine on the sphere:
\* c = 2 * math.atan2(math.sqrt(a), math.sqrt(1 - a)); math.sqrt raises
\* ValueError below 0
HavAtan2(lat1, lon1, lat2, lon2) ==
    LET a == HavA(lat1, lon1, lat2, lon2)
    IN IF a > TrigUnit * TrigUnit
       THEN [fault |-> "ValueError", distance |-> 0]
       ELSE [fault |-> "none",
             distance |-> EarthMetres(Atan2(Isqrt(a), Isqrt(TrigUnit * TrigUnit - a)))]

\* the points distances are computed between: the start of the routes
\* rounded to whole degrees, points on the equator and at a pole, points
\* far apart and a pair of antipodes
HavPoints ==
    {[lat |-> 23, lon |-> 77], [lat |-> 24, lon |-> 77], [lat |-> 23, lon |-> 78],
     [lat |-> 0, lon |-> 0], [lat |-> 0, lon |-> 90], [lat |-> 0, lon |-> 180],
     [lat |-> 90, lon |-> 0], [lat |-> 45, lon |-> -120], [lat |-> -60, lon |-> 30],
     [lat |-> 10, lon |-> 20], [lat |-> -10, lon |-> -160], [lat |-> -23, lon |-> -103]}

HavInit ==
    /\ variant = "simulator"
    /\ SchedIdle
    /\ FairIdle
    /\ VitalsIdle
    /\ RouteIdle
    /\ EnvIdle
    /\ WireStarted

\* both functions are called on a pair of points, in both orders
Measure ==
    /\ \E p \in HavPoints, q \in HavPoints :
          measured' =
             [p |-> p, q |-> q,
              asin      |-> HavAsin(p.lat, p.lon, q.lat, q.lon),
              asin_rev  |-> HavAsin(q.lat, q.lon, p.lat, p.lon),
              atan2     |-> HavAtan2(p.lat, p.lon, q.lat, q.lon),
              atan2_rev |-> HavAtan2(q.lat, q.lon, p.lat, p.lon)]
    /\ UNCHANGED <<variant, schedVars, fairVars, vitalsVars, routeVars, envVars,
                   current_location, ecgVars, wireVars, snapshot>>

HavNext == Measure

SpecHav == HavInit /\ [][HavNext]_vars

\* C25: the distance is the same in both directions and 0 from a point to
\* itself, for the asin form and for the atan2 form, and the two forms give
\* the same distance for every pair of points
CE_C25 ==
    measured # << >> =>
       /\ measured.asin = measured.asin_rev
       /\ measured.atan2 = measured.atan2_rev
       /\ measured.p = measured.q =>
             measured.asin.distance = 0 /\ measured.atan2.distance = 0
       /\ measured.asin = measured.atan2

\* the part about each function alone: symmetric, and 0 on identical points
C25_EachForm ==
    measured # << >> =>
       /\ measured.asin = measured.asin_rev
       /\ measured.atan2 = measured.atan2_rev
       /\ measured.p = measured.q =>
             measured.asin.distance = 0 /\ measured.atan2.distance = 0

\* the two forms agree to within the distance that the rounding of sqrt(a)
\* to one unit amounts to next to the antipode, twice R * sqrt(2 * 10^-4)
C25_Close ==
    measured # << >> =>
       /\ measured.asin.fault = measured.atan2.fault
       /\ Abs(measured.asin.distance - measured.atan2.distance) <= 2 * 6371 * 15


-----------------------------------------------------------------------------
\* SpecOwner: the producers of generator and realtime side by side, each
\* with the state it works on.

\* how many producer calls one run of SpecOwner makes
MaxOwner == 2

OwnerInit ==
    /\ variant \in {"generator", "realtime"}
    /\ SchedIdle
    /\ FairIdle
    /\ hazards = {}
    /\ released = [loop_stop |-> 0, disconnect |-> 0]
    /\ current_location = CurrentLocationInit(variant)
    /\ WireStarted
    /\ vitals_gen = VitalsGeneratorInit
    /\ vitalsSample = << >>
    /\ vitalsCalls = 0
    /\ ecg_gen = ECGGeneratorInit(variant, (EcgCycle \div 3) + 1)
    /\ ecgSample = << >>
    /\ ecgCalls = 0
    /\ ecgWave = << >>
    /\ rtClock = 0
    /\ rtLast = IF variant = "realtime"
                THEN [p \in {"location", "eta"} |-> 0 - StartTime]
                ELSE << >>
    /\ locSample = << >>
    /\ etaSample = << >>
    /\ location_gen = IF variant = "generator" THEN LocationGeneratorInit ELSE << >>
    /\ current_point_index = 0
    /\ simStatus = "idle"
    /\ waypoints = IF variant = "realtime" THEN RtWaypoints ELSE << >>
    /\ speed = IF variant = "realtime" THEN AMBULANCE_SPEED_KPH ELSE 0
    /\ fault = "none"

\* the producer calls made so far
OwnerSteps ==
    vitalsCalls + ecgCalls + snapshot.calls
       + (IF variant = "generator" THEN MovesMade ELSE rtClock)

\* a producer that only reads publishes its payload
Snapshot(p, data) ==
    /\ snapshot' = [calls |-> snapshot.calls + 1, p |-> p, data |-> data]
    /\ sent' = <<PeriodicMessage(variant, p)>>

\* the payload of publish_patient_vitals from the vitals generator g
PatientVitalsData(g) ==
    [hr |-> g.heart_rate, spo2 |-> Round1(g.spo2),
     bp |-> <<Round0(g.systolic), Round0(g.diastolic)>>,
     temp |-> Round1(g.temperature)]

\* publish_patient_vitals, had it asked the vitals generator for a fresh
\* sample
PublishPatientVitalsFresh ==
    /\ variant = "generator"
    /\ \E d \in WalkDraws :
          /\ vitals_gen' = VitalsWalk(vitals_gen, d)
          /\ Snapshot("patient_vitals", PatientVitalsData(vitals_gen'))
    /\ UNCHANGED <<variant, schedVars, fairVars, vitalsSample, vitalsCalls, routeVars,
                   envVars, current_location, ecgVars, profiles, measured>>

\* generator: publish_patient_vitals
PublishPatientVitals ==
    /\ variant = "generator"
    /\ Snapshot("patient_vitals", PatientVitalsData(vitals_gen))
    /\ UNCHANGED <<variant, schedVars, fairVars, vitalsVars, routeVars, envVars,
                   current_location, ecgVars, profiles, measured>>

\* publish_eta: generator asks location_gen for the distance, realtime asks
\* route_sim for the remaining time and reads the clock once more
PublishEta ==
    /\ IF variant = "generator"
       THEN \E drawn \in Draws(40, 65) :
               Snapshot("eta", [eta |-> LocationGenerator_calculate_eta(location_gen),
                                distance |-> LocationGenerator_calculate_distance(location_gen),
                                speed |-> drawn])
       ELSE \E delay \in ReadDelays :
               Snapshot("eta", EtaData(speed, rtClock, rtClock + delay))
    /\ UNCHANGED <<variant, schedVars, fairVars, vitalsVars, routeVars, envVars,
                   current_location, ecgVars, profiles, measured>>

\* publish_traffic: random.choice takes the first entry of every list or
\* the last of every list, random.randint(10, 80) one of its ends
PublishTraffic ==
    /\ \E last_entry \in BOOLEAN :
          IF variant = "generator"
          THEN Snapshot("traffic",
                        [density |-> IF last_entry THEN "Severe" ELSE "Light",
                         weather |-> IF last_entry THEN "Stormy" ELSE "Clear",
                         route   |-> IF last_entry THEN "Road Work" ELSE "Clear"])
          ELSE Snapshot("traffic",
                        [condition  |-> IF last_entry THEN "Heavy" ELSE "Light",
                         congestion |-> IF last_entry THEN 80 ELSE 10])
    /\ UNCHANGED <<variant, schedVars, fairVars, vitalsVars, routeVars, envVars,
                   current_location, ecgVars, profiles, measured>>

OwnerNext ==
    \/ OwnerSteps < MaxOwner /\ PublishVitals
    \/ OwnerSteps < MaxOwner /\ PublishEcg
    \/ OwnerSteps < MaxOwner /\ GeneratorIterate
    \/ OwnerSteps < MaxOwner /\ RealtimeIterate
    \/ OwnerSteps < MaxOwner /\ PublishPatientVitals
    \/ OwnerSteps < MaxOwner /\ PublishEta
    \/ OwnerSteps < MaxOwner /\ PublishTraffic

SpecOwner == OwnerInit /\ [][OwnerNext]_vars

\* C26: the state of the vitals generator changes only in a call of its
\* generate, the phase and heart rate of the ECG generator only in a call of
\* its generate, the position only in a step of the location producer; a
\* step of publish_patient_vitals, publish_eta or publish_traffic leaves all
\* three unchanged; and no step changes the waypoints of the route or its
\* total distance
Thm_C26 ==
    [][ /\ vitals_gen' # vitals_gen =>
              vitalsCalls' = vitalsCalls + 1 /\ snapshot' = snapshot
        /\ ecg_gen' # ecg_gen =>
              ecgCalls' = ecgCalls + 1 /\ snapshot' = snapshot
        /\ (location_gen' # location_gen \/ current_location' # current_location) =>
              /\ locSample' # << >>
              /\ variant = "generator" => current_location' = locSample'
              /\ snapshot' = snapshot /\ vitalsCalls' = vitalsCalls /\ ecgCalls' = ecgCalls
        /\ snapshot' # snapshot =>
              /\ snapshot'.p \in {"patient_vitals", "eta", "traffic"}
              /\ UNCHANGED <<vitals_gen, ecg_gen, location_gen, current_location,
                             rtClock, locSample>>
        /\ waypoints' = waypoints
        /\ calculate_total_distance(waypoints') = calculate_total_distance(waypoints)
      ]_vars

\* publish_patient_vitals has published the values the vitals generator
\* holds after a call of its generate moved them
Witness_C26 ==
    /\ snapshot.p = "patient_vitals"
    /\ vitalsCalls = 1
    /\ vitals_gen # VitalsGeneratorInit
    /\ snapshot.data.hr = vitals_gen.heart_rate
    /\ snapshot.data.hr # VitalsGeneratorInit.heart_rate


\* C27: an ETA sample of realtime says "arrived" only with a remaining
\* distance of 0 and "en_route" only with a remaining distance above 0
CE_C27 ==
    (variant = "realtime" /\ etaSample # << >>) =>
       /\ etaSample.status = "arrived" => etaSample.remaining_km = 0
       /\ etaSample.status = "en_route" => etaSample.remaining_km > 0

\* the other direction alone: a sample that says "en_route" has distance left
C27_EnRoute ==
    (variant = "realtime" /\ etaSample # << >>) =>
       (etaSample.status = "en_route" => etaSample.remaining_km > 0)


\* a pass of the loop of ambulance_simulator.main has run
SimulatorStepped ==
    variant = "simulator"
       /\ (current_point_index' # current_point_index \/ simStatus' # simStatus)

\* C28: ambulance_simulator.main, when not interrupted, starts at point 0,
\* publishes in every pass of its loop one location and one ETA message for
\* the point at the index, and vitals exactly when the index is a multiple
\* of 5, moves the index on by 1, leaves the loop in the pass of the last
\* route point with the client released, and does reach that pass
Thm_C28 ==
    /\ variant = "simulator" => current_point_index = 0
    /\ [][ SimulatorStepped =>
             LET k == current_point_index
                 n == TotalPoints(waypoints)
             IN /\ locSample'.lat = RoutePoints(waypoints)[k].lat
                /\ locSample'.lon = RoutePoints(waypoints)[k].lon
                /\ etaSample'.remaining = RemainingDistance(waypoints, k)
                /\ sent' = IF k % 5 = 0
                           THEN <<PeriodicMessage("simulator", "location"),
                                  PeriodicMessage("simulator", "eta"),
                                  PeriodicMessage("simulator", "vitals")>>
                           ELSE <<PeriodicMessage("simulator", "location"),
                                  PeriodicMessage("simulator", "eta")>>
                /\ vitalsCalls' = IF k % 5 = 0 THEN vitalsCalls + 1 ELSE vitalsCalls
                /\ IF k = n - 1
                   THEN /\ current_point_index' = k
                        /\ simStatus' = "done"
                        /\ released' = [loop_stop |-> 1, disconnect |-> 1]
                   ELSE /\ current_point_index' = k + 1
                        /\ simStatus' = "running"
                        /\ released' = [loop_stop |-> 0, disconnect |-> 0]
         ]_vars
    /\ variant = "simulator" => <>(simStatus = "done")

\* main has left its loop at the last of the 210 route points with the
\* client released, after vitals at the indices 0, 5, ..., 205
Witness_C28 ==
    /\ variant = "simulator"
    /\ simStatus = "done"
    /\ current_point_index = total_points - 1
    /\ released = [loop_stop |-> 1, disconnect |-> 1]
    /\ vitalsCalls = total_points \div 5
    /\ locSample.status = "arrived"


\* main() is in the first iteration of its loop, past the clock read
FirstTick == clock = clock0 /\ pc \in AllProducers \cup {"sleep"}

\* the producers registered before position pc of the loop
RegisteredBefore(v, at) ==
    IF at = "sleep"
    THEN Registered(v)
    ELSE SubSeq(Registered(v), 1, IndexIn(Registered(v), at) - 1)

\* C29: every last_* tracker is 0 when the loop starts, and on a first tick
\* whose clock value is at least the largest cadence every registered
\* producer fires, once, in registration order: none waits a cadence for
\* its first sample
Thm_C29 ==
    /\ (clock = clock0 /\ pc = "clock") => \A p \in AllProducers : last[p] = 0
    /\ (FirstTick /\ current_time >= LargestCadence) =>
          /\ firedTick = RegisteredBefore(variant, pc)
          /\ \A k \in 1 .. Len(firedTick) : last[firedTick[k]] = current_time

\* the first tick of realtime, read at a clock value of exactly the largest
\* cadence, has fired all five producers
Witness_C29 ==
    /\ FirstTick
    /\ pc = "sleep"
    /\ variant = "realtime"
    /\ current_time = LargestCadence
    /\ Len(firedTick) = Len(Registered("realtime"))
    /\ firedTick[Len(firedTick)] = "traffic"

====
